---- MODULE Spec2Model ----
(***************************************************************************)
(* Model of the doc-enhancer client logic: the content replacement of the  *)
(* inline enhancement view, the selection context resolvers, the two       *)
(* enhancement views with their side panel, the image placeholder cleanup  *)
(* of the PDF endpoints, the JSON extraction of the AI endpoints, the     *)
(* request handlers of the API, the localStorage wrapper, the imports of  *)
(* the dashboard's modal and the plain text converters.                    *)
(*                                                                         *)
(* Strings are sequences of one-character strings; positions are 0-based   *)
(* as in the source.                                                       *)
(***************************************************************************)
EXTENDS Integers, Sequences, FiniteSets, TLC

VARIABLES
    \* InlineEnhancementDoc
    documentContent,   \* useState documentContent
    menu,              \* FloatingEnhanceMenu: showMenu, selectedText
    lastReplace,       \* history: the last call of replaceTextInDocument
    \* DocumentEnhancement
    editorDoc,         \* the editor's document: one paragraph node
    selection,         \* editor.state.selection: from, to
    showFloatingMenu,  \* useState showFloatingMenu
    enhancing,         \* useState enhancing
    \* both views
    selectionContext,  \* the context stored for the side panel
    showSidePanel,     \* useState showSidePanel
    autoPending,       \* auto-enhance requests in flight
    panel,             \* EnhancementSidePanel: prompt, enhancement, isLoading
    panelPending,      \* side panel requests in flight
    notification,      \* what notifications.show showed in the last step
    lastEvent,         \* history: the handler that ran last, with its inputs
    \* selection context resolvers as functions
    resolverIn,        \* the document and the selection handed to a resolver
    resolverOut,       \* what the resolver returned
    \* /api/pdf-to-markdown and /api/pdf-to-html
    pdfIn,             \* the model's text and the extracted image count
    pdfOut,            \* the text the endpoint returns
    \* /api/enhance-content and /api/analyze-document
    aiText,            \* the text generateText returned
    parsed,            \* the outcome of the JSON extraction
    \* the API endpoints as request handlers
    request,           \* the request a handler received
    response,          \* the handler's answer
    externalCalls,     \* the calls to external services made for the request
    \* localStorage and the import modal
    documents,         \* the value of the key doc-enhancer:documents
    history,           \* the value of the key doc-enhancer:history
    storageOp,         \* history: the storage operation that ran last
    modal,             \* AddDocumentModal: isLoading, and the import under way
    keys,              \* the keys localStorage holds
    \* the plain text converters as functions
    plainIn,           \* the text of the file
    plainOut           \* the blocks of the document made of it

replaceVars == <<documentContent, lastReplace>>
inlineVars == <<documentContent, menu, lastReplace>>
editorVars == <<editorDoc, selection, showFloatingMenu, enhancing>>
viewVars == <<selectionContext, showSidePanel, autoPending, panel, panelPending,
              lastEvent>>
resolverVars == <<resolverIn, resolverOut>>
pdfVars == <<pdfIn, pdfOut>>
jsonVars == <<aiText, parsed>>
serviceVars == <<request, response, externalCalls>>
storageVars == <<documents, history, storageOp, modal, keys>>
plainVars == <<plainIn, plainOut>>

vars == <<documentContent, menu, lastReplace, editorDoc, selection,
          showFloatingMenu, enhancing, selectionContext, showSidePanel,
          autoPending, panel, panelPending, notification, lastEvent,
          resolverIn, resolverOut, pdfIn, pdfOut, aiText, parsed,
          request, response, externalCalls,
          documents, history, storageOp, modal, keys, plainIn, plainOut>>

\* The parts of the state a specification does not use stay at these values.
Unused == "unused"
InlineUnused == documentContent = Unused /\ menu = Unused /\ lastReplace = Unused
EditorUnused ==
    /\ editorDoc = Unused
    /\ selection = Unused
    /\ showFloatingMenu = Unused
    /\ enhancing = Unused
ViewUnused ==
    /\ selectionContext = Unused
    /\ showSidePanel = Unused
    /\ autoPending = Unused
    /\ panel = Unused
    /\ panelPending = Unused
    /\ lastEvent = Unused
ResolverUnused == resolverIn = Unused /\ resolverOut = Unused
PdfUnused == pdfIn = Unused /\ pdfOut = Unused
JsonUnused == aiText = Unused /\ parsed = Unused
ServiceUnused == request = Unused /\ response = Unused /\ externalCalls = Unused
StorageUnused ==
    /\ documents = Unused /\ history = Unused /\ storageOp = Unused
    /\ modal = Unused /\ keys = Unused
PlainUnused == plainIn = Unused /\ plainOut = Unused

\* ------------------------------------------------------------------ bounds
MaxDocLen == 3      \* longest document text
MaxTextLen == 2     \* longest original / replacement text

\* ----------------------------------------------------------------- strings
Char == {"a", "b"}

StringsOver(alphabet, n) == UNION {[1..k -> alphabet] : k \in 0..n}

Min(S) == CHOOSE x \in S : \A y \in S : x <= y
Max(S) == CHOOSE x \in S : \A y \in S : x >= y

\* String.prototype.substring(start, end): both arguments are clamped to
\* 0..length and swapped when start > end.
Clamp(n, len) == IF n < 0 THEN 0 ELSE IF n > len THEN len ELSE n

substring(s, start, end) ==
    LET a == Clamp(start, Len(s))
        b == Clamp(end, Len(s))
        lo == IF a <= b THEN a ELSE b
        hi == IF a <= b THEN b ELSE a
    IN SubSeq(s, lo + 1, hi)

substringFrom(s, start) == substring(s, start, Len(s))

\* t occurs in s at the 0-based position i
OccursAt(s, t, i) ==
    /\ i >= 0
    /\ i + Len(t) <= Len(s)
    /\ \A k \in 1..Len(t) : s[i + k] = t[k]

Occurs(s, t) == \E i \in 0..Len(s) : OccursAt(s, t, i)

lastIndexOf(s, t) ==
    LET hits == {i \in 0..Len(s) : OccursAt(s, t, i)}
    IN IF hits = {} THEN -1 ELSE Max(hits)

\* String.prototype.indexOf(searchString): the smallest position at which
\* searchString occurs, -1 when there is none.
indexOf(s, t) ==
    LET hits == {i \in 0..Len(s) : OccursAt(s, t, i)}
    IN IF hits = {} THEN -1 ELSE Min(hits)

\* String.prototype.trim(): leading and trailing white space removed.
WhiteSpace == {" ", "\n"}

RECURSIVE trimStart(_)
trimStart(s) ==
    IF s # <<>> /\ Head(s) \in WhiteSpace THEN trimStart(Tail(s)) ELSE s

RECURSIVE trimEnd(_)
trimEnd(s) ==
    IF s # <<>> /\ s[Len(s)] \in WhiteSpace
    THEN trimEnd(SubSeq(s, 1, Len(s) - 1))
    ELSE s

trim(s) == trimEnd(trimStart(s))

\* GetSubstitution of String.prototype.replace for a string pattern (no
\* captures): in the replacement, $$ stands for "$", $& for the matched text,
\* $` for the text before the match and $' for the text after it; any other
\* character, a "$" before a digit included, stands for itself.
RECURSIVE GetSubstitution(_, _, _, _)
GetSubstitution(matched, str, position, replacement) ==
    IF replacement = <<>> THEN <<>>
    ELSE IF Head(replacement) = "$" /\ Len(replacement) >= 2
         THEN LET c == replacement[2]
                  rest == SubSeq(replacement, 3, Len(replacement))
              IN IF c = "$"
                 THEN <<"$">> \o GetSubstitution(matched, str, position, rest)
                 ELSE IF c = "&"
                 THEN matched \o GetSubstitution(matched, str, position, rest)
                 ELSE IF c = "`"
                 THEN SubSeq(str, 1, position)
                        \o GetSubstitution(matched, str, position, rest)
                 ELSE IF c = "'"
                 THEN SubSeq(str, position + Len(matched) + 1, Len(str))
                        \o GetSubstitution(matched, str, position, rest)
                 ELSE <<"$">> \o GetSubstitution(matched, str, position,
                                                   Tail(replacement))
         ELSE <<Head(replacement)>>
                \o GetSubstitution(matched, str, position, Tail(replacement))

\* String.prototype.replace(searchString, replaceString): the first
\* occurrence of searchString is replaced by the substitution of
\* replaceString; without an occurrence the string is returned as it is.
replace(str, searchString, replaceString) ==
    LET position == indexOf(str, searchString)
    IN IF position = -1 THEN str
       ELSE SubSeq(str, 1, position)
              \o GetSubstitution(searchString, str, position, replaceString)
              \o SubSeq(str, position + Len(searchString) + 1, Len(str))

\* The sentinels and the template literal `<target>${text}</target>`.
TargetOpen == <<"<", "t", "a", "r", "g", "e", "t", ">">>
TargetClose == <<"<", "/", "t", "a", "r", "g", "e", "t", ">">>
WithTarget(text) == TargetOpen \o text \o TargetClose

\* ----------------------------------------------- content replacement
\* The result of one call: the new documentContent, whether
\* setDocumentContent / onContentChange were called, and the notification.
replaceTextInDocumentNoCheck(fullText, originalText, newText) ==
    LET selectionStart == indexOf(fullText, originalText)
        at == IF selectionStart # -1 THEN selectionStart ELSE Len(fullText)
        before == substring(fullText, 0, at)
        after == substringFrom(fullText, at + Len(originalText))
    IN [content |-> before \o newText \o after,
        changed |-> TRUE,
        notification |-> "Text Enhanced"]

replaceTextInDocument(fullText, originalText, newText) ==
    LET selectionStart == indexOf(fullText, originalText)
    IN IF selectionStart # -1
       THEN LET before == substring(fullText, 0, selectionStart)
                after == substringFrom(fullText, selectionStart + Len(originalText))
                updatedContent == before \o newText \o after
            IN [content |-> updatedContent,
                changed |-> TRUE,
                notification |-> "Text Enhanced"]
       ELSE [content |-> fullText,
             changed |-> FALSE,
             notification |-> "Could not find the text to replace in the document"]

NoReplace == [called |-> FALSE]

\* One call replaceTextInDocument(originalText, newText) on the component's
\* current documentContent.
ReplaceText(originalText, newText) ==
    LET r == replaceTextInDocument(documentContent, originalText, newText)
    IN /\ Len(r.content) <= MaxDocLen
       /\ documentContent' = r.content
       /\ notification' = r.notification
       /\ lastReplace' = [called |-> TRUE,
                          fullText |-> documentContent,
                          originalText |-> originalText,
                          newText |-> newText,
                          onContentChange |-> r.changed]
       /\ UNCHANGED <<menu, editorVars, viewVars, resolverVars, pdfVars, jsonVars, serviceVars, storageVars, plainVars>>

InitReplace ==
    /\ documentContent \in StringsOver(Char, MaxDocLen)
    /\ notification = "none"
    /\ lastReplace = NoReplace
    /\ menu = Unused
    /\ EditorUnused /\ ViewUnused /\ ResolverUnused /\ PdfUnused /\ JsonUnused
    /\ ServiceUnused /\ StorageUnused /\ PlainUnused

NextReplace ==
    \E originalText \in StringsOver(Char, MaxTextLen),
       newText \in StringsOver(Char, MaxTextLen) :
        ReplaceText(originalText, newText)

SpecReplace == InitReplace /\ [][NextReplace]_vars

\* ------------------------------------------- selection context resolvers
\* fullText[i] of the source: the character at the 0-based position i,
\* undefined outside the string.
charAt(s, i) == IF i >= 0 /\ i < Len(s) THEN s[i + 1] ELSE "undefined"

\* extractParagraphWithSelection: the backward search for the paragraph
\* start (a position preceded by two newlines, or 0).
RECURSIVE paragraphStartOf(_, _)
paragraphStartOf(fullText, p) ==
    IF p > 0
    THEN IF charAt(fullText, p - 1) = "\n" /\ charAt(fullText, p - 2) = "\n"
         THEN p
         ELSE paragraphStartOf(fullText, p - 1)
    ELSE p

\* extractParagraphWithSelection: the forward search for the paragraph end
\* (a position followed by two newlines, or the end of the text).
RECURSIVE paragraphEndOf(_, _)
paragraphEndOf(fullText, p) ==
    IF p < Len(fullText)
    THEN IF charAt(fullText, p) = "\n" /\ charAt(fullText, p + 1) = "\n"
         THEN p
         ELSE paragraphEndOf(fullText, p + 1)
    ELSE p

extractParagraphWithSelection(fullText, selectionStart, selectionEnd) ==
    LET selectedText == substring(fullText, selectionStart, selectionEnd)
        paragraphStart == paragraphStartOf(fullText, selectionStart)
        paragraphEnd == paragraphEndOf(fullText, selectionEnd)
        paragraph == trim(substring(fullText, paragraphStart, paragraphEnd))
        selectionInParagraph == selectedText
        selectionIndexInParagraph == indexOf(paragraph, selectionInParagraph)
    IN IF selectionIndexInParagraph = -1
       THEN [paragraphWithSelection |-> WithTarget(selectedText),
             selectedText |-> selectedText]
       ELSE LET before == substring(paragraph, 0, selectionIndexInParagraph)
                after == substringFrom(paragraph,
                           selectionIndexInParagraph + Len(selectionInParagraph))
            IN [paragraphWithSelection |->
                    before \o TargetOpen \o selectionInParagraph \o TargetClose \o after,
                selectedText |-> selectedText]

\* InlineEnhancementDoc: the search for the boundaries of the line that
\* holds the text (a newline, or the start / end of the rendered text).
RECURSIVE lineStartOf(_, _)
lineStartOf(fullText, p) ==
    IF p > 0 /\ charAt(fullText, p - 1) # "\n"
    THEN lineStartOf(fullText, p - 1)
    ELSE p

RECURSIVE lineEndOf(_, _)
lineEndOf(fullText, p) ==
    IF p < Len(fullText) /\ charAt(fullText, p) # "\n"
    THEN lineEndOf(fullText, p + 1)
    ELSE p

\* InlineEnhancementDoc.handleCustomEnhance: the paragraphWithSelection it
\* stores for the side panel, from the rendered text and the selected text.
inlineParagraphWithSelection(fullText, text) ==
    LET textStart == indexOf(fullText, text)
    IN IF textStart = -1
       THEN WithTarget(text)
       ELSE LET paragraphStart == lineStartOf(fullText, textStart)
                paragraphEnd == lineEndOf(fullText, textStart + Len(text))
                paragraph == trim(substring(fullText, paragraphStart, paragraphEnd))
            IN replace(paragraph, text, WithTarget(text))

\* InlineEnhancementDoc.handleAutoEnhance: the same context, but a text that
\* is not found throws 'Selected text not found in document'.
inlineAutoContext(fullText, text) ==
    LET textStart == indexOf(fullText, text)
    IN IF textStart = -1
       THEN [thrown |-> TRUE, message |-> "Selected text not found in document"]
       ELSE [thrown |-> FALSE,
             paragraphWithSelection |-> inlineParagraphWithSelection(fullText, text)]

\* A paragraph node of the editor is a sequence of characters, each with its
\* bold mark. The character with the 1-based index k lies between the
\* document positions k and k + 1 (position 0 is before the paragraph's
\* opening token, position Len + 2 after its closing token).
escapeHtml(c) ==
    IF c = "&" THEN <<"&", "a", "m", "p", ";">>
    ELSE IF c = "<" THEN <<"&", "l", "t", ";">>
    ELSE IF c = ">" THEN <<"&", "g", "t", ";">>
    ELSE <<c>>

StrongOpen == <<"<", "s", "t", "r", "o", "n", "g", ">">>
StrongClose == <<"<", "/", "s", "t", "r", "o", "n", "g", ">">>
POpen == <<"<", "p", ">">>
PClose == <<"<", "/", "p", ">">>

\* The serialisation of the inline content from the index k on; open tells
\* whether a <strong> element is open.
RECURSIVE inlineHtml(_, _, _)
inlineHtml(node, k, open) ==
    IF k > Len(node)
    THEN IF open THEN StrongClose ELSE <<>>
    ELSE LET c == node[k]
         IN (IF c.bold /\ ~open THEN StrongOpen
             ELSE IF ~c.bold /\ open THEN StrongClose
             ELSE <<>>)
            \o escapeHtml(c.ch)
            \o inlineHtml(node, k + 1, c.bold)

\* tiptapJsonToHtml({type: 'doc', content: [parentNode.toJSON()]}) for a
\* paragraph node.
tiptapJsonToHtml(node) == POpen \o inlineHtml(node, 1, FALSE) \o PClose

\* doc.textBetween(from, to) inside the paragraph.
textBetween(node, from, to) == [k \in 1..(to - from) |-> node[from + k - 1].ch]

NoContext == [none |-> TRUE]

extractSelectionContextNoEmptyCheck(node, from, to) ==
    LET selectedText == textBetween(node, from, to)
        parentNodeHtml == tiptapJsonToHtml(node)
    IN [none |-> FALSE,
        selectedText |-> selectedText,
        parentNodeHtml |-> replace(parentNodeHtml, selectedText, WithTarget(selectedText)),
        from |-> from,
        to |-> to]

\* extractSelectionContext(editor) for the selection from..to in the
\* paragraph node that holds it.
extractSelectionContext(node, from, to) ==
    IF from = to
    THEN NoContext
    ELSE LET selectedText == textBetween(node, from, to)
             parentNodeHtml == tiptapJsonToHtml(node)
             htmlWithTarget ==
                 replace(parentNodeHtml, selectedText, WithTarget(selectedText))
         IN [none |-> FALSE,
             selectedText |-> selectedText,
             parentNodeHtml |-> htmlWithTarget,
             from |-> from,
             to |-> to]

\* paragraphWithSelection.replace(/<target>|<\/target>/g, ''): every
\* sentinel removed.
IsPrefix(t, s) == Len(t) <= Len(s) /\ SubSeq(s, 1, Len(t)) = t

RECURSIVE StripTargets(_)
StripTargets(s) ==
    IF s = <<>> THEN <<>>
    ELSE IF IsPrefix(TargetOpen, s)
    THEN StripTargets(SubSeq(s, Len(TargetOpen) + 1, Len(s)))
    ELSE IF IsPrefix(TargetClose, s)
    THEN StripTargets(SubSeq(s, Len(TargetClose) + 1, Len(s)))
    ELSE <<Head(s)>> \o StripTargets(Tail(s))

\* ------------------------------------- the resolvers applied to inputs
MaxResolverLen == 4   \* longest rendered text handed to a text resolver
MaxNodeLen == 3       \* longest paragraph node handed to the editor resolver
MaxSelectedLen == 2   \* longest selection text that is not cut from the text

TextChar == {"a", "$", " ", "\n"}
NodeChar == [ch : {"a", "$", "&"}, bold : BOOLEAN]

\* window.getSelection().toString().trim() of a selection of the rendered
\* text: non-empty, without white space at its ends.
Trimmed(S) == {t \in S : t # <<>> /\ trim(t) = t}

TextInputs ==
    {[kind |-> "text", fullText |-> f, selectionStart |-> a, selectionEnd |-> b,
      text |-> t] :
        f \in StringsOver(TextChar, MaxResolverLen),
        a \in 0..MaxResolverLen, b \in 0..MaxResolverLen,
        t \in Trimmed(StringsOver(TextChar, MaxSelectedLen))}

NodeInputs ==
    {[kind |-> "node", node |-> n, from |-> a, to |-> b] :
        n \in StringsOver(NodeChar, MaxNodeLen),
        a \in 1..(MaxNodeLen + 1), b \in 1..(MaxNodeLen + 1)}

NoOutput == [by |-> "none", signal |-> "none", markup |-> <<>>]

InitResolver ==
    /\ \/ /\ resolverIn \in TextInputs
          /\ resolverIn.selectionStart <= resolverIn.selectionEnd
          /\ resolverIn.selectionEnd <= Len(resolverIn.fullText)
          \* the selection text is the text at the offsets, or a text that
          \* the rendered text does not hold
          /\ \/ resolverIn.text = substring(resolverIn.fullText,
                                            resolverIn.selectionStart,
                                            resolverIn.selectionEnd)
             \/ indexOf(resolverIn.fullText, resolverIn.text) = -1
       \/ /\ resolverIn \in NodeInputs
          /\ resolverIn.from <= resolverIn.to
          /\ resolverIn.to <= Len(resolverIn.node) + 1
    /\ resolverOut = NoOutput
    /\ notification = Unused
    /\ InlineUnused /\ EditorUnused /\ ViewUnused /\ PdfUnused /\ JsonUnused
    /\ ServiceUnused /\ StorageUnused /\ PlainUnused

ResolverFrame ==
    UNCHANGED <<resolverIn, notification, inlineVars, editorVars, viewVars,
                pdfVars, jsonVars, serviceVars, storageVars, plainVars>>

\* extractParagraphWithSelection(fullText, selectionStart, selectionEnd)
ResolveParagraph ==
    /\ resolverOut = NoOutput
    /\ resolverIn.kind = "text"
    /\ resolverOut' =
         [by |-> "extractParagraphWithSelection",
          signal |-> "markup",
          markup |-> extractParagraphWithSelection(
                         resolverIn.fullText, resolverIn.selectionStart,
                         resolverIn.selectionEnd).paragraphWithSelection]
    /\ ResolverFrame

\* InlineEnhancementDoc.handleCustomEnhance(text, range)
ResolveInlineCustom ==
    /\ resolverOut = NoOutput
    /\ resolverIn.kind = "text"
    /\ resolverOut' =
         [by |-> "handleCustomEnhance",
          signal |-> "markup",
          markup |-> inlineParagraphWithSelection(resolverIn.fullText,
                                                  resolverIn.text)]
    /\ ResolverFrame

\* InlineEnhancementDoc.handleAutoEnhance(text, range)
ResolveInlineAuto ==
    /\ resolverOut = NoOutput
    /\ resolverIn.kind = "text"
    /\ LET context == inlineAutoContext(resolverIn.fullText, resolverIn.text)
       IN resolverOut' =
            [by |-> "handleAutoEnhance",
             signal |-> IF context.thrown THEN "thrown" ELSE "markup",
             markup |-> IF context.thrown THEN <<>>
                        ELSE context.paragraphWithSelection]
    /\ ResolverFrame

\* extractSelectionContext(editor)
ResolveSelectionContext ==
    /\ resolverOut = NoOutput
    /\ resolverIn.kind = "node"
    /\ LET context == extractSelectionContext(resolverIn.node, resolverIn.from,
                                              resolverIn.to)
       IN resolverOut' =
            [by |-> "extractSelectionContext",
             signal |-> IF context.none THEN "no selection" ELSE "markup",
             markup |-> IF context.none THEN <<>> ELSE context.parentNodeHtml]
    /\ ResolverFrame

NextResolver ==
    \/ ResolveParagraph
    \/ ResolveInlineCustom
    \/ ResolveInlineAuto
    \/ ResolveSelectionContext

SpecResolver == InitResolver /\ [][NextResolver]_vars

\* ----------------------------------------------- claims on SpecResolver
\* The selection a text resolver was handed: the text at the offsets.
SelectionAtOffsets ==
    substring(resolverIn.fullText, resolverIn.selectionStart, resolverIn.selectionEnd)

\* A valid non-empty selection fully inside one block: for a text, a
\* selection without a newline and without white space at its ends, which
\* is the text the resolver was handed; for a node, a non-empty range.
ValidSelectionInOneBlock ==
    IF resolverIn.kind = "text"
    THEN /\ SelectionAtOffsets # <<>>
         /\ trim(SelectionAtOffsets) = SelectionAtOffsets
         /\ \A k \in 1..Len(SelectionAtOffsets) : SelectionAtOffsets[k] # "\n"
         /\ resolverIn.text = SelectionAtOffsets
    ELSE resolverIn.from < resolverIn.to

\* The markup of the block that holds the selection: the paragraph (between
\* blank lines) for extractParagraphWithSelection, the line for the inline
\* view, both without the white space around them, and the paragraph's HTML
\* for the editor.
BlockOfSelection ==
    IF resolverOut.by = "extractSelectionContext"
    THEN tiptapJsonToHtml(resolverIn.node)
    ELSE IF resolverOut.by = "extractParagraphWithSelection"
    THEN trim(substring(resolverIn.fullText,
                        paragraphStartOf(resolverIn.fullText, resolverIn.selectionStart),
                        paragraphEndOf(resolverIn.fullText, resolverIn.selectionEnd)))
    ELSE trim(substring(resolverIn.fullText,
                        lineStartOf(resolverIn.fullText, resolverIn.selectionStart),
                        lineEndOf(resolverIn.fullText, resolverIn.selectionEnd)))

\* C5: for a valid non-empty selection inside one block, the markup a
\* resolver returns, with the sentinels removed, is the markup of that block.
C5_SentinelsRemovedIsBlock ==
    (resolverOut.by # "none" /\ ValidSelectionInOneBlock) =>
        /\ resolverOut.signal = "markup"
        /\ StripTargets(resolverOut.markup) = BlockOfSelection

\* The text of the selection the resolver was handed.
SelectedTextOfInput ==
    IF resolverOut.by = "extractSelectionContext"
    THEN textBetween(resolverIn.node, resolverIn.from, resolverIn.to)
    ELSE IF resolverOut.by = "extractParagraphWithSelection"
    THEN SelectionAtOffsets
    ELSE resolverIn.text

\* The serialised document or block the resolver searches.
SearchedMarkup ==
    IF resolverOut.by = "extractSelectionContext"
    THEN tiptapJsonToHtml(resolverIn.node)
    ELSE IF resolverOut.by = "extractParagraphWithSelection"
    THEN BlockOfSelection
    ELSE resolverIn.fullText

\* C6: when the non-empty selected text is not present verbatim in the
\* serialised document or block, the resolver returns exactly the selected
\* text wrapped in the sentinels, and does not throw.
C6_FallbackWrapsSelection ==
    (/\ resolverOut.by # "none"
     /\ SelectedTextOfInput # <<>>
     /\ ~Occurs(SearchedMarkup, SelectedTextOfInput)) =>
        /\ resolverOut.signal = "markup"
        /\ resolverOut.markup = WithTarget(SelectedTextOfInput)

\* --------------------------------------- DocumentEnhancement (editor view)
MaxEditorLen == 2     \* longest paragraph of the editor view
MaxInFlight == 1      \* most requests of the editor view in flight at a time

EditorChar == [ch : {"a", "b"}, bold : {FALSE}]

\* The content of a response's newHtml, as the inline content the editor
\* parses from it: nothing, or one character.
NewHtmlChoices == {<<>>} \cup {<<c>> : c \in EditorChar}

\* editor.chain().focus().deleteRange({from, to}).insertContentAt(from, html)
\* on a document of one paragraph: a position outside the document throws a
\* RangeError; a position on the paragraph's own tokens (0, or Len + 2) falls
\* on the nearest position of its content. cursor is the selection the
\* chain leaves behind.
replaceRangeWith(doc, from, to, content) ==
    IF from < 0 \/ to > Len(doc) + 2 \/ from > to
    THEN [ok |-> FALSE, doc |-> doc, cursor |-> 0]
    ELSE LET lo == IF from < 1 THEN 1 ELSE IF from > Len(doc) + 1 THEN Len(doc) + 1 ELSE from
             hi == IF to > Len(doc) + 1 THEN Len(doc) + 1 ELSE IF to < 1 THEN 1 ELSE to
         IN [ok |-> TRUE,
             doc |-> SubSeq(doc, 1, lo - 1) \o content \o SubSeq(doc, hi, Len(doc)),
             cursor |-> lo + Len(content)]

NoEnhancement == [none |-> TRUE]
FreshPanel == [prompt |-> FALSE, enhancement |-> NoEnhancement, isLoading |-> FALSE]
OtherEvent == [type |-> "other"]

InFlight == Len(autoPending) + Len(panelPending)

\* Removing the i-th element of a sequence
RemoveAt(q, i) == SubSeq(q, 1, i - 1) \o SubSeq(q, i + 1, Len(q))

\* The requests of a side panel that was unmounted go on, but their
\* continuation acts on a component that no longer exists.
Orphaned(q) == [k \in 1..Len(q) |-> [q[k] EXCEPT !.live = FALSE]]

\* The document page after its first render
InitEditorView ==
    /\ editorDoc \in StringsOver(EditorChar, MaxEditorLen)
    /\ selection = [from |-> 1, to |-> 1]
    /\ showFloatingMenu = FALSE
    /\ enhancing = FALSE
    /\ selectionContext = NoContext
    /\ showSidePanel = FALSE
    /\ autoPending = <<>>
    /\ panel = FreshPanel
    /\ panelPending = <<>>
    /\ notification = "none"
    /\ lastEvent = OtherEvent

InitEditor ==
    /\ InitEditorView
    /\ InlineUnused /\ ResolverUnused /\ PdfUnused /\ JsonUnused
    /\ ServiceUnused /\ StorageUnused /\ PlainUnused

EditorFrame == UNCHANGED <<inlineVars, resolverVars, pdfVars, jsonVars, serviceVars, storageVars, plainVars>>

\* The user selects the range from..to of the paragraph, or puts the cursor.
UserSelect(from, to) ==
    /\ from <= to
    /\ to <= Len(editorDoc) + 1
    /\ selection # [from |-> from, to |-> to]
    /\ selection' = [from |-> from, to |-> to]
    /\ lastEvent' = OtherEvent
    /\ UNCHANGED <<editorDoc, showFloatingMenu, enhancing, selectionContext,
                   showSidePanel, autoPending, panel, panelPending>>
    /\ notification' = "none"
    /\ EditorFrame

\* updateFloatingMenu: the listener of 'selectionUpdate' and 'update'; the
\* menu follows the selection at the next render.
UpdateFloatingMenu ==
    /\ showFloatingMenu # (selection.from # selection.to)
    /\ showFloatingMenu' = (selection.from # selection.to)
    /\ lastEvent' = OtherEvent
    /\ UNCHANGED <<editorDoc, selection, enhancing, selectionContext,
                   showSidePanel, autoPending, panel, panelPending>>
    /\ notification' = "none"
    /\ EditorFrame

\* The user types a character (editable: true): it replaces the selection.
UserType(c) ==
    LET r == replaceRangeWith(editorDoc, selection.from, selection.to, <<c>>)
    IN /\ Len(r.doc) <= MaxEditorLen
       /\ editorDoc' = r.doc
       /\ selection' = [from |-> r.cursor, to |-> r.cursor]
       /\ lastEvent' = OtherEvent
       /\ UNCHANGED <<showFloatingMenu, enhancing, selectionContext, showSidePanel,
                      autoPending, panel, panelPending>>
       /\ notification' = "none"
       /\ EditorFrame

\* The user deletes the selection, or the character before the cursor.
UserDelete ==
    LET from == IF selection.from = selection.to THEN selection.from - 1
                ELSE selection.from
        r == replaceRangeWith(editorDoc, from, selection.to, <<>>)
    IN /\ from >= 1
       /\ editorDoc' = r.doc
       /\ selection' = [from |-> r.cursor, to |-> r.cursor]
       /\ lastEvent' = OtherEvent
       /\ UNCHANGED <<showFloatingMenu, enhancing, selectionContext, showSidePanel,
                      autoPending, panel, panelPending>>
       /\ notification' = "none"
       /\ EditorFrame

\* handleAutoEnhance up to the await: the 'Auto Enhance' button of the
\* floating menu (loading={enhancing} disables it).
HandleAutoEnhance ==
    /\ showFloatingMenu
    /\ ~enhancing
    /\ LET context == extractSelectionContext(editorDoc, selection.from, selection.to)
       IN /\ lastEvent' = [type |-> "handleAutoEnhance", selection |-> selection,
                           inFlightBefore |-> InFlight,
                           panelBefore |-> showSidePanel]
          /\ IF context.none
             THEN /\ notification' = "No text selected"
                  /\ UNCHANGED <<enhancing, autoPending>>
             ELSE /\ InFlight < MaxInFlight
                  /\ enhancing' = TRUE
                  /\ autoPending' = Append(autoPending, context)
                  /\ notification' = "none"
    /\ UNCHANGED <<editorDoc, selection, showFloatingMenu, selectionContext,
                   showSidePanel, panel, panelPending>>
    /\ EditorFrame

\* handleAutoEnhance after the await: enhanceContent returned newHtml.
AutoEnhanceApply(i, newHtml) ==
    /\ i \in 1..Len(autoPending)
    /\ LET context == autoPending[i]
           from == context.from - Len(context.selectedText)
           r == replaceRangeWith(editorDoc, from, context.to, newHtml)
       IN /\ Len(r.doc) <= MaxEditorLen
          /\ editorDoc' = r.doc
          /\ selection' = IF r.ok THEN [from |-> r.cursor, to |-> r.cursor]
                          ELSE selection
          /\ notification' = IF r.ok THEN "Text Enhanced" ELSE "RangeError"
          /\ lastEvent' = [type |-> "autoApply", docBefore |-> editorDoc,
                           context |-> context, newHtml |-> newHtml]
    /\ autoPending' = RemoveAt(autoPending, i)
    /\ enhancing' = FALSE
    /\ UNCHANGED <<showFloatingMenu, selectionContext, showSidePanel, panel,
                   panelPending>>
    /\ EditorFrame

\* handleAutoEnhance after the await: enhanceContent threw.
AutoEnhanceFail(i) ==
    /\ i \in 1..Len(autoPending)
    /\ autoPending' = RemoveAt(autoPending, i)
    /\ enhancing' = FALSE
    /\ notification' = "Enhancement Failed"
    /\ lastEvent' = OtherEvent
    /\ UNCHANGED <<editorDoc, selection, showFloatingMenu, selectionContext,
                   showSidePanel, panel, panelPending>>
    /\ EditorFrame

\* handleCustomEnhance: the 'Custom Enhance' button of the floating menu.
HandleCustomEnhance ==
    /\ showFloatingMenu
    /\ LET context == extractSelectionContext(editorDoc, selection.from, selection.to)
       IN /\ lastEvent' = [type |-> "handleCustomEnhance", selection |-> selection,
                           inFlightBefore |-> InFlight,
                           panelBefore |-> showSidePanel]
          /\ IF context.none
             THEN /\ notification' = "Please select some text first"
                  /\ UNCHANGED <<selectionContext, showSidePanel, panel>>
             ELSE /\ selectionContext' = context
                  /\ showSidePanel' = TRUE
                  \* a panel that is already shown keeps its state
                  /\ panel' = IF showSidePanel THEN panel ELSE FreshPanel
                  /\ notification' = "none"
    /\ UNCHANGED <<editorDoc, selection, showFloatingMenu, enhancing, autoPending,
                   panelPending>>
    /\ EditorFrame

\* ------------------------------------------------- EnhancementSidePanel
\* The textarea is rendered while there is no enhancement and no request.
InputAreaShown == showSidePanel /\ panel.enhancement.none /\ ~panel.isLoading

\* Accept, Reject and 'Ask follow-up question' are rendered once there is an
\* enhancement and no request.
ActionButtonsShown == showSidePanel /\ ~panel.enhancement.none /\ ~panel.isLoading

\* The user types a prompt that is not blank.
PanelTypePrompt ==
    /\ InputAreaShown
    /\ ~panel.prompt
    /\ panel' = [panel EXCEPT !.prompt = TRUE]
    /\ lastEvent' = OtherEvent
    /\ UNCHANGED <<editorVars, inlineVars, selectionContext, showSidePanel,
                   autoPending, panelPending>>
    /\ notification' = "none"
    /\ UNCHANGED <<resolverVars, pdfVars, jsonVars, serviceVars, storageVars, plainVars>>

\* handleEnhance up to the await: the Enhance button, or Ctrl+Enter in the
\* textarea. A blank prompt returns at once.
PanelHandleEnhance(limit) ==
    /\ InputAreaShown
    /\ panel.prompt
    /\ InFlight < limit
    /\ panel' = [panel EXCEPT !.isLoading = TRUE]
    /\ panelPending' = Append(panelPending, [live |-> TRUE])
    /\ lastEvent' = OtherEvent
    /\ UNCHANGED <<editorVars, inlineVars, selectionContext, showSidePanel,
                   autoPending>>
    /\ notification' = "none"
    /\ UNCHANGED <<resolverVars, pdfVars, jsonVars, serviceVars, storageVars, plainVars>>

\* handleEnhance after the await: enhanceContent returned newHtml.
PanelEnhanceDone(i, newHtml) ==
    /\ i \in 1..Len(panelPending)
    /\ panel' = IF panelPending[i].live
                THEN [prompt |-> FALSE,
                      enhancement |-> [none |-> FALSE, enhancedHtml |-> newHtml],
                      isLoading |-> FALSE]
                ELSE panel
    /\ panelPending' = RemoveAt(panelPending, i)
    /\ lastEvent' = OtherEvent
    /\ UNCHANGED <<editorVars, inlineVars, selectionContext, showSidePanel,
                   autoPending>>
    /\ notification' = "none"
    /\ UNCHANGED <<resolverVars, pdfVars, jsonVars, serviceVars, storageVars, plainVars>>

\* handleEnhance without its finally block
PanelEnhanceFailNoFinally(i) ==
    /\ i \in 1..Len(panelPending)
    /\ panelPending' = RemoveAt(panelPending, i)
    /\ notification' = "Enhancement Failed"
    /\ lastEvent' = OtherEvent
    /\ UNCHANGED <<editorVars, inlineVars, selectionContext, showSidePanel,
                   autoPending, panel>>
    /\ UNCHANGED <<resolverVars, pdfVars, jsonVars, serviceVars, storageVars, plainVars>>

\* handleEnhance after the await: enhanceContent threw.
PanelEnhanceFail(i) ==
    /\ i \in 1..Len(panelPending)
    /\ panel' = IF panelPending[i].live
                THEN [panel EXCEPT !.isLoading = FALSE]
                ELSE panel
    /\ panelPending' = RemoveAt(panelPending, i)
    /\ notification' = "Enhancement Failed"
    /\ lastEvent' = OtherEvent
    /\ UNCHANGED <<editorVars, inlineVars, selectionContext, showSidePanel,
                   autoPending>>
    /\ UNCHANGED <<resolverVars, pdfVars, jsonVars, serviceVars, storageVars, plainVars>>

\* handleFollowUp: 'Ask follow-up question' drops the enhancement.
PanelFollowUp ==
    /\ ActionButtonsShown
    /\ panel' = [panel EXCEPT !.enhancement = NoEnhancement]
    /\ lastEvent' = OtherEvent
    /\ UNCHANGED <<editorVars, inlineVars, selectionContext, showSidePanel,
                   autoPending, panelPending>>
    /\ notification' = "none"
    /\ UNCHANGED <<resolverVars, pdfVars, jsonVars, serviceVars, storageVars, plainVars>>

\* handleCloseSidePanel of both views: the panel is unmounted and the
\* stored context dropped.
ClosedSidePanel ==
    /\ showSidePanel' = FALSE
    /\ selectionContext' = NoContext
    /\ panel' = FreshPanel
    /\ panelPending' = Orphaned(panelPending)

\* DocumentEnhancement.handleAcceptEnhancement, called by the panel's
\* handleAccept, which then calls onClose.
EditorAccept ==
    /\ ActionButtonsShown
    /\ LET r == replaceRangeWith(editorDoc, selectionContext.from,
                                 selectionContext.to, panel.enhancement.enhancedHtml)
       IN /\ Len(r.doc) <= MaxEditorLen
          /\ editorDoc' = r.doc
          /\ selection' = IF r.ok THEN [from |-> r.cursor, to |-> r.cursor]
                          ELSE selection
          /\ notification' = IF r.ok THEN "Enhancement Applied"
                             ELSE "Failed to apply enhancement"
          /\ lastEvent' = [type |-> "accept", docBefore |-> editorDoc,
                           context |-> selectionContext]
    /\ ClosedSidePanel
    /\ UNCHANGED <<showFloatingMenu, enhancing, autoPending>>
    /\ EditorFrame

\* A reject that removes the text of the stored range
EditorRejectDeletesRange ==
    /\ ActionButtonsShown
    /\ notification' = "Enhancement Rejected"
    /\ ClosedSidePanel
    /\ lastEvent' = [type |-> "reject", docBefore |-> editorDoc]
    /\ editorDoc' = replaceRangeWith(editorDoc, selectionContext.from,
                                     selectionContext.to, <<>>).doc
    /\ UNCHANGED <<selection, showFloatingMenu, enhancing, autoPending>>
    /\ EditorFrame

\* DocumentEnhancement.handleRejectEnhancement
EditorReject ==
    /\ ActionButtonsShown
    /\ notification' = "Enhancement Rejected"
    /\ ClosedSidePanel
    /\ lastEvent' = [type |-> "reject", docBefore |-> editorDoc]
    /\ UNCHANGED <<editorVars, autoPending>>
    /\ EditorFrame

\* DocumentEnhancement.handleCloseSidePanel by the panel's close button
EditorClosePanel ==
    /\ showSidePanel
    /\ ClosedSidePanel
    /\ lastEvent' = [type |-> "close", docBefore |-> editorDoc]
    /\ UNCHANGED <<editorVars, autoPending>>
    /\ notification' = "none"
    /\ EditorFrame

NextEditor ==
    \/ \E from \in 1..(MaxEditorLen + 1), to \in 1..(MaxEditorLen + 1) :
          UserSelect(from, to)
    \/ UpdateFloatingMenu
    \/ \E c \in EditorChar : UserType(c)
    \/ UserDelete
    \/ HandleAutoEnhance
    \/ \E i \in 1..MaxInFlight, newHtml \in NewHtmlChoices : AutoEnhanceApply(i, newHtml)
    \/ \E i \in 1..MaxInFlight : AutoEnhanceFail(i)
    \/ HandleCustomEnhance
    \/ PanelTypePrompt
    \/ PanelHandleEnhance(MaxInFlight)
    \/ \E i \in 1..MaxInFlight, newHtml \in NewHtmlChoices : PanelEnhanceDone(i, newHtml)
    \/ \E i \in 1..MaxInFlight : PanelEnhanceFail(i)
    \/ PanelFollowUp
    \/ EditorAccept
    \/ EditorReject
    \/ EditorClosePanel

SpecEditor == InitEditor /\ [][NextEditor]_vars

\* ------------------------------------------------- claims on SpecEditor
\* The notifications that tell the user of a failure.
FailureNotifications ==
    {"Could not find the text to replace in the document",
     "Failed to replace text",
     "Failed to apply enhancement",
     "Enhancement Failed",
     "RangeError",
     "No text selected",
     "Selected text not found in document"}

\* The text of a document of the editor
TextOf(doc) == [k \in 1..Len(doc) |-> doc[k].ch]

\* The captured text is still at the captured range of the document.
TextStillAt(doc, context) ==
    /\ context.to <= Len(doc) + 1
    /\ textBetween(doc, context.from, context.to) = context.selectedText

\* C3: an accept step that runs after the document changed, so that the
\* original text is no longer at the place where it was captured, fails
\* visibly and leaves the document as it was.
C3_StaleAcceptLeavesDocument ==
    (lastEvent.type = "accept"
       /\ ~TextStillAt(lastEvent.docBefore, lastEvent.context)) =>
        /\ editorDoc = lastEvent.docBefore
        /\ notification \in FailureNotifications

\* C4: a replacement step (accepting the side panel's enhancement, or
\* applying an auto-enhancement) that runs when the text to replace occurs
\* nowhere in the document shows a failure notification.
C4_MissingTextIsReported ==
    (lastEvent.type \in {"accept", "autoApply"}
       /\ ~Occurs(TextOf(lastEvent.docBefore), lastEvent.context.selectedText)) =>
        notification \in FailureNotifications

\* C7: a handler that runs on an empty selection issues no request and opens
\* no side panel, it only tells the user; and every request in flight and
\* every open side panel belongs to a non-empty selection.
C7_NoRequestForEmptySelection ==
    /\ (lastEvent.type \in {"handleAutoEnhance", "handleCustomEnhance"}
          /\ lastEvent.selection.from = lastEvent.selection.to) =>
            /\ InFlight = lastEvent.inFlightBefore
            /\ showSidePanel = lastEvent.panelBefore
            /\ notification \in {"No text selected", "Please select some text first"}
    /\ \A i \in 1..Len(autoPending) :
            /\ autoPending[i].from < autoPending[i].to
            /\ autoPending[i].selectedText # <<>>
    /\ showSidePanel =>
            /\ ~selectionContext.none
            /\ selectionContext.from < selectionContext.to
            /\ selectionContext.selectedText # <<>>

\* C7 witness: a handler ran on an empty selection, and the other one was
\* refused on an empty selection while a request was in flight.
C7_Witness ==
    /\ lastEvent.type = "handleCustomEnhance"
    /\ lastEvent.selection.from = lastEvent.selection.to
    /\ notification = "Please select some text first"
    /\ Len(autoPending) = 1

\* ------------------------------------- InlineEnhancementDoc (inline view)
MaxInlineLen == 1        \* longest documentContent of the inline view
MaxInlineInFlight == 2   \* most requests of the inline view in flight at a time

\* The documentName prop and the badge, rendered above the content; the
\* badge's text is kept as one token.
DocumentName == <<"d">>
BadgeText == <<"Select text to enhance">>

\* contentRef.current.innerText: the name, the badge and the rendering of
\* documentContent, which for a paragraph of plain text is its text.
innerText(content) ==
    DocumentName \o <<"\n">> \o BadgeText \o <<"\n">> \o content

\* What a response of the inline view can hold as newText / enhancedHtml:
\* nothing, or one character.
InlineNewTexts == {<<>>} \cup {<<c>> : c \in Char}

NoMenu == [showMenu |-> FALSE, selectedText |-> <<>>]

InitInline ==
    /\ documentContent \in StringsOver(Char, MaxInlineLen)
    /\ menu = NoMenu
    /\ lastReplace = NoReplace
    /\ selectionContext = NoContext
    /\ showSidePanel = FALSE
    /\ autoPending = <<>>
    /\ panel = FreshPanel
    /\ panelPending = <<>>
    /\ notification = "none"
    /\ lastEvent = OtherEvent
    /\ EditorUnused /\ ResolverUnused /\ PdfUnused /\ JsonUnused
    /\ ServiceUnused /\ StorageUnused /\ PlainUnused

InlineFrame == UNCHANGED <<editorVars, resolverVars, pdfVars, jsonVars, serviceVars, storageVars, plainVars>>

\* FloatingEnhanceMenu.handleSelectionChange: the user selects text of the
\* rendered content; the menu takes the trimmed text and shows itself.
MenuSelect(text) ==
    /\ text # <<>>
    /\ trim(text) = text
    /\ Occurs(innerText(documentContent), text)
    /\ menu # [showMenu |-> TRUE, selectedText |-> text]
    /\ menu' = [showMenu |-> TRUE, selectedText |-> text]
    /\ notification' = "none"
    /\ lastEvent' = OtherEvent
    /\ UNCHANGED <<documentContent, lastReplace, selectionContext, showSidePanel,
                   autoPending, panel, panelPending>>
    /\ InlineFrame

\* FloatingEnhanceMenu.handleSelectionChange with an empty selection
MenuDeselect ==
    /\ menu.showMenu
    /\ menu' = [menu EXCEPT !.showMenu = FALSE]
    /\ notification' = "none"
    /\ lastEvent' = OtherEvent
    /\ UNCHANGED <<documentContent, lastReplace, selectionContext, showSidePanel,
                   autoPending, panel, panelPending>>
    /\ InlineFrame

\* FloatingEnhanceMenu.handleAutoEnhance and InlineEnhancementDoc.
\* handleAutoEnhance up to the await. The request's continuation keeps the
\* replaceTextInDocument of the render the click happened in, which reads
\* that render's documentContent.
InlineHandleAutoEnhance ==
    /\ menu.showMenu
    /\ InFlight < MaxInlineInFlight
    /\ LET context == inlineAutoContext(innerText(documentContent), menu.selectedText)
       IN IF context.thrown
          THEN /\ notification' = context.message
               /\ UNCHANGED autoPending
          ELSE /\ autoPending' = Append(autoPending,
                                        [documentContent |-> documentContent])
               /\ notification' = "none"
    /\ menu' = [menu EXCEPT !.showMenu = FALSE]
    /\ lastEvent' = [type |-> "handleAutoEnhance", inFlightBefore |-> InFlight]
    /\ UNCHANGED <<documentContent, lastReplace, selectionContext, showSidePanel,
                   panel, panelPending>>
    /\ InlineFrame

\* handleAutoEnhance after the await: enhanceContent returned
\* originalTextToReplace and newText.
InlineAutoApply(i, originalTextToReplace, newText) ==
    /\ i \in 1..Len(autoPending)
    /\ LET fullText == autoPending[i].documentContent
           r == replaceTextInDocument(fullText, originalTextToReplace, newText)
       IN /\ Len(r.content) <= MaxInlineLen
          /\ documentContent' = IF r.changed THEN r.content ELSE documentContent
          /\ notification' = r.notification
          /\ lastEvent' = [type |-> "autoApply",
                           contentBefore |-> documentContent,
                           fullText |-> fullText,
                           originalText |-> originalTextToReplace,
                           newText |-> newText]
    /\ autoPending' = RemoveAt(autoPending, i)
    /\ UNCHANGED <<menu, lastReplace, selectionContext, showSidePanel, panel,
                   panelPending>>
    /\ InlineFrame

\* handleAutoEnhance after the await: enhanceContent threw.
InlineAutoFail(i) ==
    /\ i \in 1..Len(autoPending)
    /\ autoPending' = RemoveAt(autoPending, i)
    /\ notification' = "Enhancement Failed"
    /\ lastEvent' = [type |-> "autoFail", contentBefore |-> documentContent]
    /\ UNCHANGED <<documentContent, menu, lastReplace, selectionContext,
                   showSidePanel, panel, panelPending>>
    /\ InlineFrame

\* FloatingEnhanceMenu.handleCustomEnhance and InlineEnhancementDoc.
\* handleCustomEnhance: the side panel opens on the selection's context.
InlineHandleCustomEnhance ==
    /\ menu.showMenu
    /\ selectionContext' =
          [none |-> FALSE,
           selectedText |-> menu.selectedText,
           paragraphWithSelection |->
               inlineParagraphWithSelection(innerText(documentContent),
                                            menu.selectedText)]
    /\ showSidePanel' = TRUE
    \* a panel that is already shown keeps its state
    /\ panel' = IF showSidePanel THEN panel ELSE FreshPanel
    /\ menu' = [menu EXCEPT !.showMenu = FALSE]
    /\ notification' = "none"
    /\ lastEvent' = [type |-> "handleCustomEnhance", inFlightBefore |-> InFlight]
    /\ UNCHANGED <<documentContent, lastReplace, autoPending, panelPending>>
    /\ InlineFrame

\* InlineEnhancementDoc.handleAcceptEnhancement, called by the panel's
\* handleAccept with the panel's selectedText, which then calls onClose.
InlineAccept ==
    /\ ActionButtonsShown
    /\ LET r == replaceTextInDocument(documentContent, selectionContext.selectedText,
                                      panel.enhancement.enhancedHtml)
       IN /\ Len(r.content) <= MaxInlineLen
          /\ documentContent' = r.content
          /\ notification' = r.notification
          /\ lastEvent' = [type |-> "accept",
                           contentBefore |-> documentContent,
                           fullText |-> documentContent,
                           originalText |-> selectionContext.selectedText,
                           newText |-> panel.enhancement.enhancedHtml]
    /\ ClosedSidePanel
    /\ UNCHANGED <<menu, lastReplace, autoPending>>
    /\ InlineFrame

\* InlineEnhancementDoc.handleRejectEnhancement
InlineReject ==
    /\ ActionButtonsShown
    /\ notification' = "Enhancement Rejected"
    /\ ClosedSidePanel
    /\ lastEvent' = [type |-> "reject", contentBefore |-> documentContent]
    /\ UNCHANGED <<inlineVars, autoPending>>
    /\ InlineFrame

\* InlineEnhancementDoc.handleCloseSidePanel by the panel's close button
InlineClosePanel ==
    /\ showSidePanel
    /\ notification' = "none"
    /\ ClosedSidePanel
    /\ lastEvent' = [type |-> "close", contentBefore |-> documentContent]
    /\ UNCHANGED <<inlineVars, autoPending>>
    /\ InlineFrame

NextInline ==
    \/ \E text \in StringsOver(Char, MaxSelectedLen) : MenuSelect(text)
    \/ MenuDeselect
    \/ InlineHandleAutoEnhance
    \/ \E i \in 1..MaxInlineInFlight,
          originalTextToReplace \in StringsOver(Char, MaxTextLen),
          newText \in InlineNewTexts :
             InlineAutoApply(i, originalTextToReplace, newText)
    \/ \E i \in 1..MaxInlineInFlight : InlineAutoFail(i)
    \/ InlineHandleCustomEnhance
    \/ PanelTypePrompt
    \/ PanelHandleEnhance(MaxInlineInFlight)
    \/ \E i \in 1..MaxInlineInFlight, newHtml \in InlineNewTexts :
          PanelEnhanceDone(i, newHtml)
    \/ \E i \in 1..MaxInlineInFlight : PanelEnhanceFail(i)
    \/ PanelFollowUp
    \/ InlineAccept
    \/ InlineReject
    \/ InlineClosePanel

SpecInline == InitInline /\ [][NextInline]_vars

\* ------------------------------------------------- claims on SpecInline
\* C8: under any sequence of clicks and request completions, at most one
\* enhancement request of the view is in flight at any time.
C8_AtMostOneRequestInFlight == InFlight <= 1

\* --------------------- /api/pdf-to-markdown and /api/pdf-to-html: cleanup
MaxPdfLen == 3          \* longest text of the model, in tokens
MaxPlaceholder == 2     \* largest index of a placeholder the model writes
MaxImages == 2          \* most images extracted from a PDF

\* The model's text as a sequence of tokens: a placeholder {{IMAGE_index}},
\* a whitespace character, another character, or (in the HTML returned) the
\* <img> tag of the extracted image of an index.
Placeholder(i) == [kind |-> "placeholder", index |-> i]
ImgTag(i) == [kind |-> "img", index |-> i]
SpaceToken == [kind |-> "space", index |-> 0]
TextToken == [kind |-> "text", index |-> 0]
PdfToken == {Placeholder(i) : i \in 0..MaxPlaceholder} \cup {SpaceToken, TextToken}

\* text.match(/\{\{IMAGE_\d+\}\}/g): the placeholders of a text, in order
placeholderMatches(text) == SelectSeq(text, LAMBDA t : t.kind = "placeholder")

\* The rest of a text after the whitespace it starts with (\s*)
RECURSIVE skipWhiteSpace(_)
skipWhiteSpace(text) ==
    IF text # <<>> /\ Head(text).kind = "space"
    THEN skipWhiteSpace(Tail(text))
    ELSE text

\* text.replace(new RegExp(`\\{\\{IMAGE_${i}\\}\\}\\s*`, 'g'), ''): every
\* placeholder of index i goes, with the whitespace that follows it.
RECURSIVE removePlaceholder(_, _)
removePlaceholder(text, i) ==
    IF text = <<>> THEN <<>>
    ELSE IF Head(text) = Placeholder(i)
    THEN removePlaceholder(skipWhiteSpace(Tail(text)), i)
    ELSE <<Head(text)>> \o removePlaceholder(Tail(text), i)

\* for (let i = imageCount; i < placeholderCount; i++) cleanedText = ...
RECURSIVE removeFrom(_, _, _)
removeFrom(cleanedText, i, placeholderCount) ==
    IF i < placeholderCount
    THEN removeFrom(removePlaceholder(cleanedText, i), i + 1, placeholderCount)
    ELSE cleanedText

\* Step 3 of /api/pdf-to-markdown: the placeholders are counted, and when
\* there are more of them than images, the indices from imageCount up to
\* the count are removed.
cleanMarkdown(text, imageCount) ==
    LET placeholderCount == Len(placeholderMatches(text))
    IN IF placeholderCount > imageCount
       THEN removeFrom(text, imageCount, placeholderCount)
       ELSE text

\* htmlContent.replace(new RegExp(`{{IMAGE_${index}}}`, 'g'), imgTag)
embedImage(htmlContent, index) ==
    [k \in 1..Len(htmlContent) |->
        IF htmlContent[k] = Placeholder(index) THEN ImgTag(index) ELSE htmlContent[k]]

\* extractedImages.images.forEach((img, index) => ...), from index on
RECURSIVE embedImages(_, _, _)
embedImages(htmlContent, index, imageCount) ==
    IF index < imageCount
    THEN embedImages(embedImage(htmlContent, index), index + 1, imageCount)
    ELSE htmlContent

\* Step 3 of /api/pdf-to-html: the placeholders of the extracted images
\* become their <img> tags, and every placeholder left is removed.
cleanHtml(text, imageCount) ==
    SelectSeq(embedImages(text, 0, imageCount), LAMBDA t : t.kind # "placeholder")

\* !text alone: the text is empty
IsBlankWhenEmpty(text) == text = <<>>

\* !text || text.trim().length === 0
IsBlank(text) == \A k \in 1..Len(text) : text[k].kind = "space"

NoPdfOutput == [by |-> "none", status |-> 0, error |-> "none", text |-> <<>>]

InitPdf ==
    /\ pdfIn \in [text : StringsOver(PdfToken, MaxPdfLen), imageCount : 0..MaxImages]
    /\ pdfOut = NoPdfOutput
    /\ notification = Unused
    /\ InlineUnused /\ EditorUnused /\ ViewUnused /\ ResolverUnused /\ JsonUnused
    /\ ServiceUnused /\ StorageUnused /\ PlainUnused

PdfFrame == UNCHANGED <<inlineVars, editorVars, viewVars, notification,
                        resolverVars, jsonVars, serviceVars, storageVars, plainVars>>

\* The handler of /api/pdf-to-markdown from the model's text on
PdfToMarkdown ==
    /\ pdfOut = NoPdfOutput
    /\ pdfOut' = IF IsBlank(pdfIn.text)
                 THEN [by |-> "pdf-to-markdown", status |-> 500,
                       error |-> "No content generated by AI", text |-> <<>>]
                 ELSE [by |-> "pdf-to-markdown", status |-> 200, error |-> "none",
                       text |-> cleanMarkdown(pdfIn.text, pdfIn.imageCount)]
    /\ UNCHANGED pdfIn
    /\ PdfFrame

\* The handler of /api/pdf-to-html from the model's text on
PdfToHtml ==
    /\ pdfOut = NoPdfOutput
    /\ pdfOut' = IF IsBlank(pdfIn.text)
                 THEN [by |-> "pdf-to-html", status |-> 500,
                       error |-> "No content generated by AI", text |-> <<>>]
                 ELSE [by |-> "pdf-to-html", status |-> 200, error |-> "none",
                       text |-> cleanHtml(pdfIn.text, pdfIn.imageCount)]
    /\ UNCHANGED pdfIn
    /\ PdfFrame

NextPdf ==
    \/ PdfToMarkdown
    \/ PdfToHtml

SpecPdf == InitPdf /\ [][NextPdf]_vars

\* --------------------------------------------------- claims on SpecPdf
\* How often a token occurs in a text
CountOf(text, token) == Cardinality({k \in 1..Len(text) : text[k] = token})

\* C9: after the cleanup no placeholder of an index i >= n remains, where n
\* is the number of extracted images, and no placeholder of an index i < n
\* is removed: the markdown keeps each of them, the HTML holds the image's
\* tag in its place.
C9_PlaceholdersReconciled ==
    pdfOut.status = 200 =>
        \A i \in 0..MaxPlaceholder :
            IF i >= pdfIn.imageCount
            THEN CountOf(pdfOut.text, Placeholder(i)) = 0
            ELSE IF pdfOut.by = "pdf-to-markdown"
            THEN CountOf(pdfOut.text, Placeholder(i)) = CountOf(pdfIn.text, Placeholder(i))
            ELSE CountOf(pdfOut.text, ImgTag(i)) = CountOf(pdfIn.text, Placeholder(i))

\* ------------- /api/enhance-content and /api/analyze-document: extraction
MaxAiLen == 5     \* longest text of the model, in tokens

\* The model's text as a sequence of tokens: the braces, a fence of three
\* backticks, the word json, a whitespace character, a complete member of
\* an object ("k" for "key": value), and a character of prose ("x").
Fence == "fence"
AiToken == {"{", "}", Fence, "json", " ", "k", "x"}

\* The positions of a token, 1-based
PositionsOf(text, token) == {p \in 1..Len(text) : text[p] = token}

NoMatch == [found |-> FALSE]

\* text.match of the fence pattern (three backticks, json, \s*, a lazy
\* group, \s*, three backticks): the leftmost fence with json behind it
\* that a fence follows; the group starts after the whitespace behind json and is
\* the shortest text that whitespace and the next fence follow.
fenceMatch(text) ==
    LET opens == {p \in PositionsOf(text, Fence) :
                     /\ p + 1 <= Len(text)
                     /\ text[p + 1] = "json"
                     /\ \E q \in PositionsOf(text, Fence) : q > p + 1}
    IN IF opens = {} THEN NoMatch
       ELSE LET open == Min(opens)
                close == Min({q \in PositionsOf(text, Fence) : q > open + 1})
            IN [found |-> TRUE,
                whole |-> SubSeq(text, open, close),
                group |-> trim(SubSeq(text, open + 2, close - 1))]

\* text.match(/\{[\s\S]*\}/): from the first opening brace to the last
\* closing brace behind it. There is no group.
braceMatch(text) ==
    LET opens == PositionsOf(text, "{")
    IN IF opens = {} \/ {q \in PositionsOf(text, "}") : q > Min(opens)} = {}
       THEN NoMatch
       ELSE [found |-> TRUE,
             whole |-> SubSeq(text, Min(opens), Max(PositionsOf(text, "}"))),
             group |-> <<>>]

\* jsonMatch ? jsonMatch[1] || jsonMatch[0] : text, where an empty or a
\* missing group is falsy
jsonTextOf(text) ==
    LET byFence == fenceMatch(text)
        jsonMatch == IF byFence.found THEN byFence ELSE braceMatch(text)
    IN IF jsonMatch.found
       THEN IF jsonMatch.group # <<>> THEN jsonMatch.group ELSE jsonMatch.whole
       ELSE text

\* The members an object of the model's text can hold, one token each: the
\* action with the literal replace or with another string, new_html with a
\* string or with a number, and any other member ("k").
ActionReplace == "action:replace"
ActionOther == "action:other"
NewHtmlString == "new_html:<p>Hi</p>"
NewHtmlNumber == "new_html:1"
\* A new_html whose string holds three backticks is three tokens of the
\* text: the member up to the backticks, the backticks, and the rest.
NewHtmlOpen == "new_html:<pre>"
NewHtmlClose == "</pre>"
NewHtmlFenced == "new_html:<pre>fence</pre>"
JsonMember == {"k", ActionReplace, ActionOther, NewHtmlString, NewHtmlNumber,
               NewHtmlFenced}

\* The lexer of JSON.parse: whitespace between the tokens is skipped, and a
\* string that holds backticks is one member.
RECURSIVE jsonTokens(_)
jsonTokens(s) ==
    IF s = <<>> THEN <<>>
    ELSE IF Head(s) \in WhiteSpace THEN jsonTokens(Tail(s))
    ELSE IF Len(s) >= 3 /\ SubSeq(s, 1, 3) = <<NewHtmlOpen, Fence, NewHtmlClose>>
    THEN <<NewHtmlFenced>> \o jsonTokens(SubSeq(s, 4, Len(s)))
    ELSE <<Head(s)>> \o jsonTokens(Tail(s))

\* The objects JSON.parse accepts: braces around no member, or around
\* members with a comma between them.
IsJsonObject(s) ==
    /\ Len(s) >= 2
    /\ s[1] = "{"
    /\ s[Len(s)] = "}"
    /\ LET inner == jsonTokens(SubSeq(s, 2, Len(s) - 1))
       IN \/ inner = <<>>
          \/ /\ Len(inner) % 2 = 1
             /\ \A p \in 1..Len(inner) :
                   IF p % 2 = 1 THEN inner[p] \in JsonMember ELSE inner[p] = ","

\* JSON.parse accepts an object, and of the other values the model has null.
JsonParseAccepts(s) == IsJsonObject(s) \/ s = <<"null">>

\* The extraction of both handlers: the try block and its catch, which
\* answers with the first 200 characters of the text.
ExcerptLen == 200
extractJsonWholeText(text) ==
    LET jsonText == trim(jsonTextOf(text))
    IN IF JsonParseAccepts(jsonText)
       THEN [status |-> 200, error |-> "none", object |-> jsonText,
             details |-> <<>>]
       ELSE [status |-> 500, error |-> "AI returned invalid JSON format",
             object |-> <<>>, details |-> text]

extractJson(text) ==
    LET jsonText == trim(jsonTextOf(text))
    IN IF JsonParseAccepts(jsonText)
       THEN [status |-> 200, error |-> "none", object |-> jsonText,
             details |-> <<>>]
       ELSE [status |-> 500, error |-> "AI returned invalid JSON format",
             object |-> <<>>, details |-> substring(text, 0, ExcerptLen)]

NotParsed == [by |-> "none", status |-> 0, error |-> "none", object |-> <<>>,
              details |-> <<>>]

InitJson ==
    /\ aiText \in StringsOver(AiToken, MaxAiLen)
    /\ parsed = NotParsed
    /\ notification = Unused
    /\ InlineUnused /\ EditorUnused /\ ViewUnused /\ ResolverUnused /\ PdfUnused
    /\ ServiceUnused /\ StorageUnused /\ PlainUnused

JsonFrame == UNCHANGED <<inlineVars, editorVars, viewVars, notification,
                         resolverVars, pdfVars, serviceVars, storageVars, plainVars>>

\* The handler of /api/enhance-content from the model's text up to the parse
EnhanceContentParse ==
    /\ parsed = NotParsed
    /\ parsed' = IF trim(aiText) = <<>>
                 THEN [by |-> "enhance-content", status |-> 500,
                       error |-> "No content generated by AI", object |-> <<>>,
                       details |-> <<>>]
                 ELSE [by |-> "enhance-content"] @@ extractJson(aiText)
    /\ UNCHANGED aiText
    /\ JsonFrame

\* The handler of /api/analyze-document from the model's text up to the parse
AnalyzeDocumentParse ==
    /\ parsed = NotParsed
    /\ parsed' = IF trim(aiText) = <<>>
                 THEN [by |-> "analyze-document", status |-> 500,
                       error |-> "No metadata generated by AI", object |-> <<>>,
                       details |-> <<>>]
                 ELSE [by |-> "analyze-document"] @@ extractJson(aiText)
    /\ UNCHANGED aiText
    /\ JsonFrame

NextJson ==
    \/ EnhanceContentParse
    \/ AnalyzeDocumentParse

SpecJson == InitJson /\ [][NextJson]_vars

\* --------------------------------------------------- claims on SpecJson
\* The first fenced code block of a text: from the first fence to the next
\* one, with the content between them less the word json behind the opening.
HasFencedBlock(text) == Cardinality(PositionsOf(text, Fence)) >= 2

FencedContent(text) ==
    LET open == Min(PositionsOf(text, Fence))
        close == Min({q \in PositionsOf(text, Fence) : q > open})
        content == SubSeq(text, open + 1, close - 1)
    IN IF content # <<>> /\ Head(content) = "json"
       THEN trim(Tail(content))
       ELSE trim(content)

\* The well-formed objects of a text, as the pairs of their first and last
\* position, and the first of them.
ObjectsIn(text) ==
    {r \in (1..Len(text)) \X (1..Len(text)) :
        r[1] < r[2] /\ IsJsonObject(SubSeq(text, r[1], r[2]))}

FirstObjectIn(text) ==
    LET first == Min({r[1] : r \in ObjectsIn(text)})
        last == Min({r[2] : r \in {o \in ObjectsIn(text) : o[1] = first}})
    IN SubSeq(text, first, last)

\* A well-formed object wrapped in a code fence, or in prose only.
WrappedInFence(text) == HasFencedBlock(text) /\ IsJsonObject(FencedContent(text))
WrappedInProse(text) == PositionsOf(text, Fence) = {} /\ ObjectsIn(text) # {}

\* C10: when the response holds a well-formed JSON object wrapped in a code
\* fence or in prose, the object that gets parsed is the one of the fenced
\* block if there is one, and else the first well-formed object of the text.
C10_FirstObjectIsParsed ==
    (parsed.by # "none" /\ (WrappedInFence(aiText) \/ WrappedInProse(aiText))) =>
        /\ parsed.status = 200
        /\ parsed.object = IF WrappedInFence(aiText)
                           THEN FencedContent(aiText)
                           ELSE FirstObjectIn(aiText)

\* ------------------ /api/enhance-content: from the model's text to the answer
\* A value of the parsed object, and a property the object does not have
ValueOf(member) ==
    CASE member = ActionReplace -> [type |-> "string", value |-> "replace"]
      [] member = ActionOther -> [type |-> "string", value |-> "other"]
      [] member = NewHtmlString -> [type |-> "string", value |-> "<p>Hi</p>"]
      [] member = NewHtmlNumber -> [type |-> "number", value |-> "1"]
      [] member = NewHtmlFenced -> [type |-> "string", value |-> "<pre>fence</pre>"]
      [] OTHER -> [type |-> "string", value |-> "v"]

Undefined == [type |-> "undefined", value |-> "undefined"]

\* parsedResponse.action and parsedResponse.new_html: of the members of
\* the key the last one counts.
Property(object, keyMembers) ==
    LET inner == jsonTokens(SubSeq(object, 2, Len(object) - 1))
        at == {p \in 1..Len(inner) : inner[p] \in keyMembers}
    IN IF at = {} THEN Undefined ELSE ValueOf(inner[Max(at)])

ActionMembers == {ActionReplace, ActionOther}
NewHtmlMembers == {NewHtmlString, NewHtmlNumber, NewHtmlFenced}

\* responseSchema: action is the literal 'replace', newHtml is a string.
responseSchemaAccepts(action, newHtml) ==
    /\ action = [type |-> "string", value |-> "replace"]
    /\ newHtml.type = "string"

NoData == [action |-> "none", newHtml |-> "none", model |-> "none"]

\* The handler from the text of generateText on. Reading a property of
\* null throws a TypeError, which the handler's outer catch answers.
enhanceContentRespond(text) ==
    IF trim(text) = <<>>
    THEN [status |-> 500, error |-> "No content generated by AI",
          object |-> <<>>, details |-> <<>>, data |-> NoData]
    ELSE LET extracted == extractJson(text)
         IN IF extracted.status = 500
            THEN extracted @@ [data |-> NoData]
            ELSE IF extracted.object = <<"null">>
            THEN [status |-> 500, error |-> "Failed to enhance content",
                  object |-> extracted.object, details |-> <<"TypeError">>,
                  data |-> NoData]
            ELSE LET action == Property(extracted.object, ActionMembers)
                     newHtml == Property(extracted.object, NewHtmlMembers)
                 IN IF responseSchemaAccepts(action, newHtml)
                    THEN [status |-> 200, error |-> "none",
                          object |-> extracted.object, details |-> <<>>,
                          data |-> [action |-> action.value,
                                    newHtml |-> newHtml.value,
                                    model |-> "gemini-2.0-flash-exp"]]
                    ELSE [status |-> 500,
                          error |-> "AI response missing required fields",
                          object |-> extracted.object,
                          details |-> <<"result.error.errors">>,
                          data |-> NoData]

\* The texts of the model: an object of an action member or none and a
\* new_html member or none, or null; as it is, in a json fence, in a fence
\* without a language, or with prose around it; and texts that are no JSON,
\* shorter and longer than the excerpt.
JoinMembers(a, h) ==
    IF a = <<>> \/ h = <<>> THEN a \o h ELSE a \o <<",">> \o h

JsonTexts ==
    {<<"{">> \o JoinMembers(a, h) \o <<"}">> :
        a \in {<<>>, <<ActionReplace>>, <<ActionOther>>},
        h \in {<<>>, <<NewHtmlString>>, <<NewHtmlNumber>>,
               <<NewHtmlOpen, Fence, NewHtmlClose>>}}
      \cup {<<"null">>}

Wrappings(json) ==
    {json,
     <<Fence, "json", "\n">> \o json \o <<"\n", Fence>>,
     <<Fence, "json">> \o json \o <<Fence>>,
     <<Fence, "\n">> \o json \o <<"\n", Fence>>,
     <<"x", " ">> \o json,
     json \o <<" ", "x">>}

Prose(n) == [p \in 1..n |-> "x"]

NoJsonTexts ==
    {prefix \o Prose(n) :
        prefix \in {<<"x">>, <<"{", "x">>, <<Fence, "json", "x", Fence>>},
        n \in {0, ExcerptLen - 1, ExcerptLen}}

ResponseTexts ==
    UNION {Wrappings(json) : json \in JsonTexts} \cup NoJsonTexts \cup {<<" ">>}

InitResponse ==
    /\ aiText \in ResponseTexts
    /\ parsed = NotParsed
    /\ notification = Unused
    /\ InlineUnused /\ EditorUnused /\ ViewUnused /\ ResolverUnused /\ PdfUnused
    /\ ServiceUnused /\ StorageUnused /\ PlainUnused

\* The handler of /api/enhance-content from the model's text on
EnhanceContentRespond ==
    /\ parsed = NotParsed
    /\ parsed' = [by |-> "enhance-content"] @@ enhanceContentRespond(aiText)
    /\ UNCHANGED aiText
    /\ JsonFrame

NextResponse ==
    \/ EnhanceContentRespond
    \/ AnalyzeDocumentParse

SpecResponse == InitResponse /\ [][NextResponse]_vars

\* ------------------------------------------------ claims on SpecResponse
\* A text that is one fenced code block, and what the block holds
IsFencedText(text) ==
    Len(text) >= 2 /\ text[1] = Fence /\ text[Len(text)] = Fence

Unfenced(text) ==
    LET content == SubSeq(text, 2, Len(text) - 1)
    IN IF content # <<>> /\ Head(content) = "json"
       THEN trim(Tail(content))
       ELSE trim(content)

\* C11: the answer to a text that holds valid JSON in a fenced code block
\* is the answer to the same JSON without the fence.
C11_FencedParsedAsUnfenced ==
    (parsed.by = "enhance-content"
       /\ IsFencedText(aiText)
       /\ IsJsonObject(Unfenced(aiText))) =>
        parsed = [by |-> "enhance-content"] @@ enhanceContentRespond(Unfenced(aiText))

\* The payload JSON.parse returned conforms to the schema.
PayloadOf(text) == trim(jsonTextOf(text))

Conforms(payload) ==
    /\ IsJsonObject(payload)
    /\ responseSchemaAccepts(Property(payload, ActionMembers),
                             Property(payload, NewHtmlMembers))

\* C12: a parsed payload that does not conform to the schema is answered
\* with the error 'AI response missing required fields', never with a
\* success.
C12_SchemaFailureIsHardFailure ==
    (parsed.by = "enhance-content"
       /\ trim(aiText) # <<>>
       /\ JsonParseAccepts(PayloadOf(aiText))
       /\ ~Conforms(PayloadOf(aiText))) =>
        /\ parsed.status = 500
        /\ parsed.error = "AI response missing required fields"

\* C13: a text that cannot be parsed as JSON is answered with the error
\* 'AI returned invalid JSON format' and an excerpt of the text: its
\* prefix of at most 200 characters.
C13_InvalidJsonCarriesExcerpt ==
    (parsed.by # "none"
       /\ trim(aiText) # <<>>
       /\ ~JsonParseAccepts(PayloadOf(aiText))) =>
        /\ parsed.status = 500
        /\ parsed.error = "AI returned invalid JSON format"
        /\ Len(parsed.details) = Min({Len(aiText), ExcerptLen})
        /\ parsed.details = SubSeq(aiText, 1, Len(parsed.details))

C13_Witness ==
    /\ parsed.by = "analyze-document"
    /\ parsed.error = "AI returned invalid JSON format"
    /\ Len(aiText) > ExcerptLen
    /\ Len(parsed.details) = ExcerptLen

\* ------------------------------- the API endpoints as request handlers
\* A field of a request: missing, an empty string, a value that is no
\* string, or a string the handler can use. A Confluence URL can further be
\* a string without /pages/<id>, or one that new URL() rejects.
FieldValue == {"missing", "empty", "number", "ok"}
UrlValue == FieldValue \cup {"no page id", "no base url"}

EnhanceFieldNames == {"fullDocumentHtml", "targetBlockHtml", "instructions"}
PdfFieldNames == {"fileData", "fileName"}
ConfluenceFieldNames == {"confluenceUrl", "confluenceToken", "confluenceEmail"}

\* env: process.env.CONFLUENCE_TOKEN is set
Requests ==
    [endpoint : {"enhance-content"}, method : {"POST", "GET"},
     fields : [EnhanceFieldNames -> FieldValue], env : {FALSE}]
      \cup
    [endpoint : {"pdf-to-html"}, method : {"POST", "GET"},
     fields : [PdfFieldNames -> FieldValue], env : {FALSE}]
      \cup
    {r \in [endpoint : {"confluence-fetch"}, method : {"GET", "POST", "PUT"},
            fields : [ConfluenceFieldNames -> UrlValue], env : BOOLEAN] :
        /\ r.fields["confluenceToken"] \in {"missing", "empty", "ok"}
        /\ r.fields["confluenceEmail"] \in {"missing", "ok"}}

\* What the external service does when it is called: it answers with a
\* status, or the call throws.
Answered(status) == [kind |-> "status", status |-> status]
Thrown == [kind |-> "throws", status |-> 0]
Returned(text) == [kind |-> "text", text |-> text]
ConfluenceOutcomes == {Answered(s) : s \in {200, 401, 403, 404, 500}} \cup {Thrown}

NoResponse == [status |-> 0, error |-> <<>>, fields |-> {}, body |-> <<>>]

\* res.status(status).json({ error, details }): an error message is a
\* sequence of phrases, the details are the fields they name.
Answer(status, error, fields) ==
    [status |-> status, error |-> error, fields |-> fields, body |-> <<>>]

\* res.status(200).json(body)
Success(body) == [status |-> 200, error |-> <<>>, fields |-> {}, body |-> body]

Result(answer, calls) == [response |-> answer, calls |-> calls]

\* requestSchema.safeParse of /api/enhance-content: the fields with an issue
enhanceRequestIssues(fields) ==
    {f \in {"fullDocumentHtml", "targetBlockHtml"} : fields[f] # "ok"}
      \cup {f \in {"instructions"} : fields[f] = "number"}

\* requestSchema.safeParse of /api/pdf-to-html: the fields with an issue
pdfRequestIssues(fields) == {f \in PdfFieldNames : fields[f] # "ok"}

\* The handler of /api/enhance-content; generated is what generateText
\* does: it returns a text, or it throws.
enhanceContentHandler(req, generated) ==
    IF req.method # "POST"
    THEN Result(Answer(405, <<"Method not allowed">>, {}), <<>>)
    ELSE IF enhanceRequestIssues(req.fields) # {}
    THEN Result(Answer(400, <<"Invalid request">>,
                       enhanceRequestIssues(req.fields)), <<>>)
    ELSE IF generated = Thrown
    THEN Result(Answer(500, <<"Failed to enhance content">>, {}),
                <<"generateText">>)
    ELSE LET answered == enhanceContentRespond(generated.text)
         IN IF answered.status = 200
            THEN Result(Success(<<answered.data>>), <<"generateText">>)
            ELSE Result(Answer(answered.status, <<answered.error>>, {}),
                        <<"generateText">>)

\* The handler of /api/pdf-to-html; generated is what generateText does.
\* The images are extracted in the handler itself.
pdfToHtmlHandler(req, imageCount, generated) ==
    IF req.method # "POST"
    THEN Result(Answer(405, <<"Method not allowed">>, {}), <<>>)
    ELSE IF pdfRequestIssues(req.fields) # {}
    THEN Result(Answer(400, <<"Invalid request">>,
                       pdfRequestIssues(req.fields)), <<>>)
    ELSE IF generated = Thrown
    THEN Result(Answer(500, <<"Failed to convert PDF to HTML">>, {}),
                <<"generateText">>)
    ELSE IF IsBlank(generated.text)
    THEN Result(Answer(500, <<"No content generated by AI">>, {}),
                <<"generateText">>)
    ELSE Result(Success(cleanHtml(generated.text, imageCount)), <<"generateText">>)

\* The token the handler of /api/confluence-fetch uses: the body's for a
\* POST, the header's or else the environment's for a GET.
confluenceTokenOf(req) ==
    IF req.method = "POST" THEN req.fields["confluenceToken"]
    ELSE IF req.fields["confluenceToken"] \in {"missing", "empty"} /\ req.env
    THEN "ok"
    ELSE req.fields["confluenceToken"]

\* The answer to what the Confluence API answered
confluenceAnswer(upstream) ==
    IF upstream = Thrown
    THEN Answer(500, <<"Failed to fetch from Confluence">>, {})
    ELSE IF upstream.status = 401
    THEN Answer(401, <<"Authentication failed",
                       ". Check your Confluence credentials.">>, {})
    ELSE IF upstream.status = 404
    THEN Answer(404, <<"Page ", "not found", ". Check the Confluence URL.">>, {})
    ELSE IF upstream.status # 200
    THEN Answer(upstream.status, <<"Confluence API error: ", "statusText">>, {})
    ELSE Success(<<"content">>)

confluenceFetchHandlerNoTokenCheck(req, upstream) ==
    IF req.method \notin {"GET", "POST"}
    THEN Result(Answer(405, <<"Method not allowed">>, {}), <<>>)
    ELSE IF req.fields["confluenceUrl"] \in {"missing", "empty", "number"}
    THEN Result(Answer(400, <<"Missing or invalid confluenceUrl parameter">>,
                       {"confluenceUrl"}), <<>>)
    ELSE IF req.fields["confluenceUrl"] = "no page id"
    THEN Result(Answer(400, <<"Invalid Confluence URL format",
                              ". Could not extract page ID.">>,
                       {"confluenceUrl"}), <<>>)
    ELSE IF req.fields["confluenceUrl"] = "no base url"
    THEN Result(Answer(400, <<"Invalid Confluence URL format",
                              ". Could not extract base URL.">>,
                       {"confluenceUrl"}), <<>>)
    ELSE Result(confluenceAnswer(upstream), <<"fetch Confluence">>)

\* The handler of /api/confluence-fetch; upstream is what the Confluence
\* API does when it is called.
confluenceFetchHandler(req, upstream) ==
    IF req.method \notin {"GET", "POST"}
    THEN Result(Answer(405, <<"Method not allowed">>, {}), <<>>)
    ELSE IF req.fields["confluenceUrl"] \in {"missing", "empty", "number"}
    THEN Result(Answer(400, <<"Missing or invalid confluenceUrl parameter">>,
                       {"confluenceUrl"}), <<>>)
    ELSE IF req.fields["confluenceUrl"] = "no page id"
    THEN Result(Answer(400, <<"Invalid Confluence URL format",
                              ". Could not extract page ID.">>,
                       {"confluenceUrl"}), <<>>)
    ELSE IF req.fields["confluenceUrl"] = "no base url"
    THEN Result(Answer(400, <<"Invalid Confluence URL format",
                              ". Could not extract base URL.">>,
                       {"confluenceUrl"}), <<>>)
    ELSE IF confluenceTokenOf(req) \in {"missing", "empty"}
    THEN Result(Answer(400, <<"Confluence credentials not provided",
                              ". Please configure them in Settings.">>,
                       {"confluenceToken"}), <<>>)
    ELSE Result(confluenceAnswer(upstream), <<"fetch Confluence">>)

\* What generateText does for the handlers
EnhanceGenerated ==
    {Returned(text) : text \in {<<"{", ActionReplace, ",", NewHtmlString, "}">>,
                                <<"x">>, <<" ">>}} \cup {Thrown}
PdfGenerated ==
    {Returned(text) : text \in {<<TextToken>>, <<SpaceToken>>,
                                <<Placeholder(0), Placeholder(1)>>}} \cup {Thrown}

InitRequest ==
    /\ request \in Requests
    /\ response = NoResponse
    /\ externalCalls = <<>>
    /\ notification = Unused
    /\ InlineUnused /\ EditorUnused /\ ViewUnused /\ ResolverUnused /\ PdfUnused
    /\ JsonUnused /\ StorageUnused /\ PlainUnused

RequestFrame == UNCHANGED <<request, inlineVars, editorVars, viewVars, notification,
                            resolverVars, pdfVars, jsonVars, storageVars, plainVars>>

Handled(result) ==
    /\ response = NoResponse
    /\ response' = result.response
    /\ externalCalls' = result.calls
    /\ RequestFrame

HandleEnhanceContent ==
    /\ request.endpoint = "enhance-content"
    /\ \E generated \in EnhanceGenerated :
          Handled(enhanceContentHandler(request, generated))

HandlePdfToHtml ==
    /\ request.endpoint = "pdf-to-html"
    /\ \E imageCount \in 0..MaxImages, generated \in PdfGenerated :
          Handled(pdfToHtmlHandler(request, imageCount, generated))

HandleConfluenceFetch ==
    /\ request.endpoint = "confluence-fetch"
    /\ \E upstream \in ConfluenceOutcomes :
          Handled(confluenceFetchHandler(request, upstream))

NextRequest ==
    \/ HandleEnhanceContent
    \/ HandlePdfToHtml
    \/ HandleConfluenceFetch

SpecRequest == InitRequest /\ [][NextRequest]_vars

\* ------------------------------------------------- claims on SpecRequest
\* The fields a handler requires, and a request that lacks one of them
RequiredFields(req) ==
    IF req.endpoint = "enhance-content" THEN {"fullDocumentHtml", "targetBlockHtml"}
    ELSE IF req.endpoint = "pdf-to-html" THEN {"fileData", "fileName"}
    ELSE IF req.method = "GET" /\ req.env THEN {"confluenceUrl"}
    ELSE {"confluenceUrl", "confluenceToken"}

MethodAllowed(req) ==
    req.method = "POST" \/ (req.endpoint = "confluence-fetch" /\ req.method = "GET")

MissingRequiredField(req) ==
    \E f \in RequiredFields(req) : req.fields[f] = "missing"

MaxDocs == 2        \* most documents stored or imported
MaxRecords == 2     \* most enhancement records stored or imported
MaxId == 2          \* the ids are 1..MaxId

Ids == 1..MaxId
Names == {"d", "e"}
Documents == [id : Ids, name : Names]
EnhancementRecords == [id : Ids, documentId : Ids]

\* The value of a key is the array JSON.parse returns of it; a key that is
\* not there reads as the empty array.
IdsOf(items) == {items[k].id : k \in 1..Len(items)}
DocumentIdsOf(records) == {records[k].documentId : k \in 1..Len(records)}

\* What an operation did: the value it returned, the keys it wrote, and
\* the keys it writes when it runs to its end.
Op(name, result, written, all) ==
    [name |-> name, result |-> result, written |-> written, all |-> all]

NoOp == Op("none", "none", {}, {})

\* crypto.randomUUID(): an id that nothing stored carries
FreshDocumentIds == Ids \ (IdsOf(documents) \cup DocumentIdsOf(history))
FreshRecordIds == Ids \ IdsOf(history)

\* documents.findIndex((d) => d.id === id), 1-based, 0 for -1
findIndex(items, id) ==
    IF id \in IdsOf(items)
    THEN Min({k \in 1..Len(items) : items[k].id = id})
    ELSE 0

\* { ...documents[index], ...updates, updatedAt }
Spread(document, updates) ==
    [key \in DOMAIN document |->
        IF key \in DOMAIN updates THEN updates[key] ELSE document[key]]

\* Partial<Document>
PartialDocuments ==
    {[id |-> id, name |-> name] : id \in Ids, name \in Names}
      \cup {[id |-> id] : id \in Ids} \cup {[name |-> name] : name \in Names}

\* JSON.parse(jsonString) of importData: it throws, or it returns data
\* with or without the arrays documents and history.
ParsedData ==
    [valid : {TRUE}, hasDocuments : BOOLEAN, documents : StringsOver(Documents, MaxDocs),
     hasHistory : BOOLEAN, history : StringsOver(EnhancementRecords, MaxRecords)]
ImportTexts ==
    {d \in ParsedData : /\ ~d.hasDocuments => d.documents = <<>>
                        /\ ~d.hasHistory => d.history = <<>>}
      \cup {[valid |-> FALSE, hasDocuments |-> FALSE, documents |-> <<>>,
             hasHistory |-> FALSE, history |-> <<>>]}

InitStorage ==
    /\ documents = <<>>
    /\ history = <<>>
    /\ storageOp = NoOp
    /\ keys = {}
    /\ modal = Unused
    /\ notification = Unused
    /\ InlineUnused /\ EditorUnused /\ ViewUnused /\ ResolverUnused /\ PdfUnused
    /\ JsonUnused /\ ServiceUnused /\ PlainUnused

StorageFrame == UNCHANGED <<inlineVars, editorVars, viewVars, notification,
                            resolverVars, pdfVars, jsonVars, serviceVars, modal,
                            plainVars>>

\* localStorage.setItem throws a QuotaExceededError when the value does
\* not fit; the key then keeps its value.
AddDocument ==
    /\ Len(documents) < MaxDocs
    /\ \E name \in Names, id \in FreshDocumentIds, fits \in BOOLEAN :
          IF fits
          THEN /\ documents' = Append(documents, [id |-> id, name |-> name])
               /\ storageOp' = Op("addDocument", "newDoc", {"documents"}, {"documents"})
          ELSE /\ UNCHANGED documents
               /\ storageOp' = Op("addDocument", "throws", {}, {"documents"})
    /\ UNCHANGED history
    /\ keys' = keys \cup storageOp'.written
    /\ StorageFrame

UpdateDocument ==
    /\ \E id \in Ids, updates \in PartialDocuments :
          LET index == findIndex(documents, id)
          IN IF index = 0
             THEN /\ UNCHANGED documents
                  /\ storageOp' = Op("updateDocument", "null", {}, {})
             ELSE /\ documents' = [documents EXCEPT
                                      ![index] = Spread(documents[index], updates)]
                  /\ storageOp' = Op("updateDocument", "document",
                                     {"documents"}, {"documents"})
    /\ UNCHANGED history
    /\ keys' = keys \cup storageOp'.written
    /\ StorageFrame

\* deleteDocument without the deletion of the related history
DeleteDocumentKeepsHistory ==
    /\ \E id \in Ids :
          LET filteredDocs == SelectSeq(documents, LAMBDA d : d.id # id)
          IN IF Len(filteredDocs) = Len(documents)
             THEN /\ UNCHANGED <<documents, history>>
                  /\ storageOp' = Op("deleteDocument", "false", {}, {}) @@ [id |-> id]
             ELSE /\ documents' = filteredDocs
                  /\ UNCHANGED history
                  /\ storageOp' = Op("deleteDocument", "true",
                                     {"documents"}, {"documents"}) @@ [id |-> id]
    /\ keys' = keys \cup storageOp'.written
    /\ StorageFrame

\* deleteDocument(id); the operation is recorded with its id.
DeleteDocument ==
    /\ \E id \in Ids :
          LET filteredDocs == SelectSeq(documents, LAMBDA d : d.id # id)
          IN IF Len(filteredDocs) = Len(documents)
             THEN /\ UNCHANGED <<documents, history>>
                  /\ storageOp' = Op("deleteDocument", "false", {}, {}) @@ [id |-> id]
             ELSE /\ documents' = filteredDocs
                  /\ history' = SelectSeq(history, LAMBDA h : h.documentId # id)
                  /\ storageOp' = Op("deleteDocument", "true",
                                     {"documents", "history"}, {"documents", "history"})
                                     @@ [id |-> id]
    /\ keys' = keys \cup storageOp'.written
    /\ StorageFrame

AddHistory ==
    /\ Len(history) < MaxRecords
    /\ \E documentId \in Ids, id \in FreshRecordIds, fits \in BOOLEAN :
          IF fits
          THEN /\ history' = Append(history, [id |-> id, documentId |-> documentId])
               /\ storageOp' = Op("addHistory", "newRecord", {"history"}, {"history"})
          ELSE /\ UNCHANGED history
               /\ storageOp' = Op("addHistory", "throws", {}, {"history"})
    /\ UNCHANGED documents
    /\ keys' = keys \cup storageOp'.written
    /\ StorageFrame

DeleteHistory ==
    /\ \E id \in Ids :
          LET filteredHistory == SelectSeq(history, LAMBDA h : h.id # id)
          IN IF Len(filteredHistory) = Len(history)
             THEN /\ UNCHANGED history
                  /\ storageOp' = Op("deleteHistory", "false", {}, {})
             ELSE /\ history' = filteredHistory
                  /\ storageOp' = Op("deleteHistory", "true", {"history"}, {"history"})
    /\ UNCHANGED documents
    /\ keys' = keys \cup storageOp'.written
    /\ StorageFrame

ClearAll ==
    /\ documents' = <<>>
    /\ history' = <<>>
    /\ storageOp' = Op("clearAll", "void", {"documents", "history"},
                       {"documents", "history"})
    /\ keys' = {}
    /\ StorageFrame

\* importData: the documents are saved first, the history after them; a
\* setItem that throws ends the operation in its catch.
ImportData ==
    /\ \E data \in ImportTexts, fit \in SUBSET {"documents", "history"} :
          IF ~data.valid \/ ~data.hasDocuments
          THEN /\ UNCHANGED <<documents, history>>
               /\ storageOp' = Op("importData", "success: false", {}, {})
          ELSE LET all == IF data.hasHistory THEN {"documents", "history"}
                          ELSE {"documents"}
               IN IF "documents" \notin fit
                  THEN /\ UNCHANGED <<documents, history>>
                       /\ storageOp' = Op("importData", "success: false", {}, all)
                  ELSE IF data.hasHistory /\ "history" \notin fit
                  THEN /\ documents' = data.documents
                       /\ UNCHANGED history
                       /\ storageOp' = Op("importData", "success: false",
                                          {"documents"}, all)
                  ELSE /\ documents' = data.documents
                       /\ history' = IF data.hasHistory THEN data.history ELSE history
                       /\ storageOp' = Op("importData", "success: true", all, all)
    /\ keys' = keys \cup storageOp'.written
    /\ StorageFrame

\* localStorage.getItem(key): the string stored under the key, or null
NullItem == [kind |-> "null", items |-> <<>>]
getItem(key, value) ==
    IF key \in keys THEN [kind |-> "string", items |-> value] ELSE NullItem

\* JSON.parse(data) alone: JSON.parse(null) is null
parseAlways(data) ==
    IF data.kind = "null" THEN [kind |-> "null", items |-> <<>>]
    ELSE [kind |-> "array", items |-> data.items]

\* data ? JSON.parse(data) : []
parseOrEmpty(data) ==
    IF data.kind = "null" THEN [kind |-> "array", items |-> <<>>]
    ELSE [kind |-> "array", items |-> data.items]

\* A read: the value it returned
Read(name, returned) ==
    [name |-> name, result |-> "returns", written |-> {}, all |-> {},
     returned |-> returned]

GetDocuments ==
    /\ storageOp' = Read("getDocuments", parseOrEmpty(getItem("documents", documents)))
    /\ UNCHANGED <<documents, history, keys>>
    /\ StorageFrame

\* getHistory(documentId?): documentId 0 is the call without a documentId
GetHistory ==
    /\ \E documentId \in {0} \cup Ids :
          LET parsedHistory == parseOrEmpty(getItem("history", history))
          IN storageOp' = Read("getHistory",
                 IF documentId # 0 /\ parsedHistory.kind = "array"
                 THEN [parsedHistory EXCEPT
                          !.items = SelectSeq(@, LAMBDA h : h.documentId = documentId)]
                 ELSE parsedHistory)
    /\ UNCHANGED <<documents, history, keys>>
    /\ StorageFrame

NextStorage ==
    \/ GetDocuments
    \/ GetHistory
    \/ AddDocument
    \/ UpdateDocument
    \/ DeleteDocument
    \/ AddHistory
    \/ DeleteHistory
    \/ ClearAll
    \/ ImportData

SpecStorage == InitStorage /\ [][NextStorage]_vars

\* ------------------------------------------------- claims on SpecStorage
\* C16: no storage operation leaves persisted state with only part of the
\* operation applied: an operation has written all the keys it writes, or
\* none of them.
C16_NoPartialMutation ==
    storageOp.written \in {{}, storageOp.all}

\* C19: no two documents in the stored collection have the same id.
C19_DocumentIdsUnique ==
    \A j, k \in 1..Len(documents) : documents[j].id = documents[k].id => j = k

\* C20: the documentId of every stored enhancement record is the id of a
\* stored document.
C20_RecordsReferenceDocuments ==
    DocumentIdsOf(history) \subseteq IdsOf(documents)

\* --------------- AddDocumentModal: the imports, with the document page
\* The modal is on the dashboard page, the editor on the document page.
NoUpstream == [kind |-> "none", status |-> 0]

ModalIdle(page) ==
    [page |-> page, pc |-> "idle", isLoading |-> FALSE, before |-> <<>>,
     upstream |-> NoUpstream, failed |-> FALSE]

\* notifications.show({ title, message })
Notify(title, message) == [title |-> title, message |-> message]
NoNotification == Notify("none", <<>>)

NoRequest == [endpoint |-> "none", method |-> "none"]

\* A call to an external service, made for an endpoint of the API
Call(service, endpoint, ok) == [service |-> service, endpoint |-> endpoint, ok |-> ok]

\* fetchFromConfluence of the API client from the answer on:
\* throw new Error(error.error || 'Failed to fetch from Confluence')
fetchFromConfluenceFallbackOnly(answer) ==
    IF answer.status # 200
    THEN [ok |-> FALSE, message |-> <<"Failed to fetch from Confluence">>]
    ELSE [ok |-> TRUE, message |-> <<>>]

fetchFromConfluence(answer) ==
    IF answer.status # 200
    THEN [ok |-> FALSE,
          message |-> IF answer.error # <<>> THEN answer.error
                      ELSE <<"Failed to fetch from Confluence">>]
    ELSE [ok |-> TRUE, message |-> <<>>]

\* The document of the document page, and the stores of the dashboard
StoredDocument == [id |-> 1, name |-> "d"]

InitDashboard ==
    /\ modal = ModalIdle("dashboard")
    /\ documents \in {<<>>, <<StoredDocument>>}
    /\ notification = NoNotification
    /\ InlineUnused /\ EditorUnused /\ ViewUnused

MaxPageLen == 1     \* longest paragraph of the document page

\* The editor starts with the content of the stored document.
InitDocumentPage ==
    /\ modal = ModalIdle("document")
    /\ InitEditorView
    /\ Len(editorDoc) <= MaxPageLen
    /\ documents = <<[id |-> 1, name |-> "d", content |-> editorDoc]>>
    /\ InlineUnused

InitImport ==
    /\ InitDashboard \/ InitDocumentPage
    /\ history = <<>>
    /\ storageOp = NoOp
    /\ keys = IF documents = <<>> THEN {} ELSE {"documents"}
    /\ request = NoRequest
    /\ response = NoResponse
    /\ externalCalls = <<>>
    /\ ResolverUnused /\ PdfUnused /\ JsonUnused /\ PlainUnused

ImportFrame == UNCHANGED <<inlineVars, editorVars, viewVars, resolverVars, pdfVars,
                           jsonVars, history, storageOp, plainVars>>

\* Where a handler of the modal is after a catch block: it has returned.
pcAfterCatchRetries(pc) == pc

pcAfterCatch(pc) == "idle"

\* The catch blocks of the modal: the error is shown, the loading ends.
Failed(title, message) ==
    /\ notification' = Notify(title, message)
    /\ UNCHANGED <<documents, keys>>

\* handleConfluenceSubmit up to its first await
ConfluenceSubmit ==
    /\ modal.pc = "idle"
    /\ Len(documents) < MaxDocs
    /\ \E settings \in {"none", "ok", "empty"}, url \in {"ok", "no page id"} :
          IF settings = "none"
          THEN /\ notification' = Notify("Settings Required",
                      <<"Please configure your Confluence credentials in Settings first">>)
               /\ modal' = ModalIdle("dashboard")
               /\ externalCalls' = <<>>
               /\ UNCHANGED <<request, response>>
          ELSE /\ modal' = [ModalIdle("dashboard") EXCEPT
                               !.pc = "fetching", !.isLoading = TRUE,
                               !.before = documents]
               /\ request' = [endpoint |-> "confluence-fetch", method |-> "POST",
                              fields |-> [f \in ConfluenceFieldNames |->
                                            IF f = "confluenceUrl" THEN url
                                            ELSE settings],
                              env |-> FALSE]
               /\ response' = NoResponse
               /\ externalCalls' = <<>>
               /\ notification' = NoNotification
    /\ UNCHANGED <<documents, keys>>
    /\ ImportFrame

\* handleConfluenceSubmit after fetchFromConfluence: the API has answered.
ConfluenceFetched ==
    /\ modal.pc = "fetching"
    /\ \E upstream \in ConfluenceOutcomes :
          LET result == confluenceFetchHandler(request, upstream)
              fetched == fetchFromConfluence(result.response)
              called == result.calls # <<>>
          IN /\ response' = result.response
             /\ externalCalls' =
                   IF called
                   THEN Append(externalCalls,
                               Call("wiki", "confluence-fetch", result.response.status = 200))
                   ELSE externalCalls
             /\ IF fetched.ok
                THEN /\ modal' = [modal EXCEPT !.pc = "analyzing", !.upstream = upstream]
                     /\ UNCHANGED <<notification, documents, keys>>
                ELSE /\ modal' = [modal EXCEPT
                                     !.pc = pcAfterCatch(modal.pc),
                                  !.isLoading = FALSE, !.failed = TRUE,
                                     !.upstream = IF called THEN upstream ELSE NoUpstream]
                     /\ Failed("Error", fetched.message)
    /\ UNCHANGED request
    /\ ImportFrame

\* handleFileSubmit up to its first await
FileSubmit ==
    /\ modal.pc = "idle"
    /\ Len(documents) < MaxDocs
    /\ \E file \in {"none", "pdf", "md", "txt"} :
          IF file = "none"
          THEN /\ notification' = Notify("Error", <<"Please select a file">>)
               /\ modal' = ModalIdle("dashboard")
               /\ externalCalls' = <<>>
          ELSE /\ modal' = [ModalIdle("dashboard") EXCEPT
                               !.pc = IF file = "pdf" THEN "converting" ELSE "reading",
                               !.isLoading = TRUE,
                               !.before = documents]
               /\ externalCalls' = <<>>
               /\ notification' = NoNotification
    /\ UNCHANGED <<documents, keys, request, response>>
    /\ ImportFrame

\* handleFileSubmit after convertPdfToHtml
PdfConverted ==
    /\ modal.pc = "converting"
    /\ \E ok \in BOOLEAN :
          /\ externalCalls' = Append(externalCalls, Call("ai", "pdf-to-html", ok))
          /\ IF ok
             THEN /\ modal' = [modal EXCEPT !.pc = "analyzing"]
                  /\ notification' = Notify("PDF Converted", <<"PDF converted successfully">>)
                  /\ UNCHANGED <<documents, keys>>
             ELSE /\ modal' = [modal EXCEPT
                                  !.pc = pcAfterCatch(modal.pc),
                                  !.isLoading = FALSE, !.failed = TRUE]
                  /\ Failed("PDF Conversion Failed", <<"Failed to convert PDF">>)
    /\ UNCHANGED <<request, response>>
    /\ ImportFrame

\* handleFileSubmit after file.text()
FileRead ==
    /\ modal.pc = "reading"
    /\ \E ok \in BOOLEAN :
          IF ok
          THEN /\ modal' = [modal EXCEPT !.pc = "analyzing"]
               /\ UNCHANGED <<notification, documents, keys>>
          ELSE /\ modal' = [modal EXCEPT
                               !.pc = pcAfterCatch(modal.pc),
                                  !.isLoading = FALSE, !.failed = TRUE]
               /\ Failed("Error", <<"Failed to read file">>)
    /\ UNCHANGED <<request, response, externalCalls>>
    /\ ImportFrame

\* Both handlers after analyzeDocument, whose failure is only logged: the
\* document is saved, the modal closes; a setItem that throws is caught.
AnalyzedSavesOnFailure ==
    /\ modal.pc = "analyzing"
    /\ \E ok \in BOOLEAN, fits \in BOOLEAN, id \in FreshDocumentIds :
          /\ externalCalls' = Append(externalCalls, Call("ai", "analyze-document", ok))
          /\ documents' = Append(documents, [id |-> id, name |-> "d"])
          /\ keys' = keys \cup {"documents"}
          /\ IF fits
             THEN /\ modal' = [modal EXCEPT !.pc = "idle", !.isLoading = FALSE]
                  /\ notification' = Notify("Success", <<"Document added successfully">>)
             ELSE /\ modal' = [modal EXCEPT
                                  !.pc = pcAfterCatch(modal.pc),
                                  !.isLoading = FALSE, !.failed = TRUE]
                  /\ notification' = Notify("Error", <<"QuotaExceededError">>)
    /\ UNCHANGED <<request, response>>
    /\ ImportFrame

Analyzed ==
    /\ modal.pc = "analyzing"
    /\ \E ok \in BOOLEAN, fits \in BOOLEAN, id \in FreshDocumentIds :
          /\ externalCalls' = Append(externalCalls, Call("ai", "analyze-document", ok))
          /\ IF fits
             THEN /\ documents' = Append(documents, [id |-> id, name |-> "d"])
                  /\ keys' = keys \cup {"documents"}
                  /\ modal' = [modal EXCEPT !.pc = "idle", !.isLoading = FALSE]
                  /\ notification' = Notify("Success", <<"Document added successfully">>)
             ELSE /\ modal' = [modal EXCEPT
                                  !.pc = pcAfterCatch(modal.pc),
                                  !.isLoading = FALSE, !.failed = TRUE]
                  /\ Failed("Error", <<"QuotaExceededError">>)
    /\ UNCHANGED <<request, response>>
    /\ ImportFrame

NextImport ==
    \/ modal.page = "dashboard" /\ ConfluenceSubmit
    \/ modal.page = "dashboard" /\ ConfluenceFetched
    \/ modal.page = "dashboard" /\ FileSubmit
    \/ modal.page = "dashboard" /\ PdfConverted
    \/ modal.page = "dashboard" /\ FileRead
    \/ modal.page = "dashboard" /\ Analyzed
    \/ modal.page = "document" /\ NextEditor /\ Len(editorDoc') <= MaxPageLen

SpecImport == InitImport /\ [][NextImport]_vars

\* -------------------------------------------------- claims on SpecImport
\* A message contains a phrase
Contains(message, phrase) == \E k \in 1..Len(message) : message[k] = phrase

GenericMessages ==
    {<<"Confluence API error: ", "statusText">>, <<"Failed to fetch from Confluence">>}

\* The upstream call threw, or it returned a status that is not ok.
UpstreamFailed(upstream) ==
    upstream.kind = "throws" \/ (upstream.kind = "status" /\ upstream.status # 200)

\* C15: a wiki fetch whose upstream call returned 401 shows a message that
\* contains 'Authentication failed', one whose upstream call returned 404
\* a message that contains 'not found', and every other upstream failure a
\* generic message.
C15_UpstreamFailureSurfaced ==
    (modal.page = "dashboard" /\ modal.failed /\ UpstreamFailed(modal.upstream)) =>
        /\ notification.title = "Error"
        /\ IF modal.upstream.status = 401
           THEN Contains(notification.message, "Authentication failed")
           ELSE IF modal.upstream.status = 404
           THEN Contains(notification.message, "not found")
           ELSE notification.message \in GenericMessages

C15_Witness ==
    /\ modal.page = "dashboard"
    /\ modal.failed
    /\ modal.upstream = Answered(401)
    /\ Contains(notification.message, "Authentication failed")

\* C17: a failed import leaves the stored documents as they were when the
\* import started, and a failed enhancement request changes neither the
\* document of the editor nor the stored documents.
C17_ImportFailureLeavesStore ==
    (modal.page = "dashboard" /\ modal.failed) => documents = modal.before

C17_EnhancementFailureLeavesDocument ==
    (modal.page = "document" /\ notification' = "Enhancement Failed") =>
        UNCHANGED <<editorDoc, documents>>

C17_FailureLeavesStateUntouched ==
    []C17_ImportFailureLeavesStore /\ [][C17_EnhancementFailureLeavesDocument]_vars

C17_Witness ==
    /\ modal.page = "dashboard"
    /\ modal.failed
    /\ modal.before = <<StoredDocument>>
    /\ documents = <<StoredDocument>>
    /\ notification.title = "PDF Conversion Failed"

\* C18 as it is stated: of the calls one user action causes, no two go to
\* the same external service.
C18_OneCallPerService ==
    modal.page = "dashboard" =>
        \A j, k \in 1..Len(externalCalls) :
            externalCalls[j].service = externalCalls[k].service => j = k

\* C18: nothing is retried. Of the calls one user action causes, no two
\* are made for the same endpoint and none follows a call that failed; a
\* failed enhancement request is followed by no request of its own.
C18_NoCallRepeated ==
    modal.page = "dashboard" =>
        /\ \A j, k \in 1..Len(externalCalls) :
              externalCalls[j].endpoint = externalCalls[k].endpoint => j = k
        /\ \A k \in 1..Len(externalCalls) :
              ~externalCalls[k].ok => k = Len(externalCalls)

C18_FailedRequestNotRepeated ==
    (modal.page = "document" /\ notification' = "Enhancement Failed") =>
        InFlight' = InFlight - 1

C18_NothingRetried ==
    []C18_NoCallRepeated /\ [][C18_FailedRequestNotRepeated]_vars

C18_Witness ==
    /\ modal.page = "dashboard"
    /\ modal.failed
    /\ Len(externalCalls) = 1
    /\ ~externalCalls[1].ok

\* C21: the enhancement history is only appended to. In every step, a
\* record that is stored before and after keeps its fields, and the records
\* that are new stand after the ones that were there.
C21_Step ==
    /\ \A j \in 1..Len(history), k \in 1..Len(history') :
          history[j].id = history'[k].id => history'[k] = history[j]
    /\ \A k \in 1..Len(history') :
          history'[k].id \notin IdsOf(history) =>
              \A l \in k..Len(history') : history'[l].id \notin IdsOf(history)

C21_HistoryAppendOnly == [][C21_Step]_vars

\* C22: after the user accepted an enhancement and it was applied, the
\* content of the persisted document is the content of the editor, which
\* holds the enhanced content.
C22_AcceptedEnhancementPersisted ==
    (modal.page = "document"
       /\ lastEvent.type = "accept"
       /\ notification = "Enhancement Applied") =>
        documents[1].content = editorDoc

\* --------------------------------- content-converters: plain text import
MaxPlainLen == 4    \* longest text of a file, in tokens

\* The text of a file as a sequence of tokens: a letter, a space, a line
\* feed, and the character sequences <p> and </p>.
ParagraphOpen == "<p>"
ParagraphClose == "</p>"
PlainToken == {"a", " ", "\n", ParagraphOpen, ParagraphClose}

\* text.split('\n')
RECURSIVE splitLines(_)
splitLines(text) ==
    IF PositionsOf(text, "\n") = {} THEN <<text>>
    ELSE LET at == Min(PositionsOf(text, "\n"))
         IN <<SubSeq(text, 1, at - 1)>> \o splitLines(SubSeq(text, at + 1, Len(text)))

\* paragraphs.join('\n')
RECURSIVE joinLines(_)
joinLines(paragraphs) ==
    IF paragraphs = <<>> THEN <<>>
    ELSE IF Len(paragraphs) = 1 THEN paragraphs[1]
    ELSE paragraphs[1] \o <<"\n">> \o joinLines(Tail(paragraphs))

\* plainTextToHtml: each line becomes <p>trimmed</p>, nothing is escaped.
plainTextToHtml(text) ==
    LET lines == splitLines(text)
    IN joinLines([k \in 1..Len(lines) |->
                    <<ParagraphOpen>> \o trim(lines[k]) \o <<ParagraphClose>>])

\* plainTextToTiptapJson: each line becomes a paragraph node of the line's
\* text, or of no content when the line is blank.
plainTextToTiptapJson(text) ==
    LET lines == splitLines(text)
    IN [k \in 1..Len(lines) |-> IF trim(lines[k]) # <<>> THEN lines[k] ELSE <<>>]

\* htmlToTiptapJson, generateJSON of the editor library: the paragraph
\* nodes of the HTML, as the texts they hold. <p> starts a paragraph and
\* ends the one that is open, </p> ends the open one or stands for an empty
\* one, white space between paragraphs is dropped, and text outside of a
\* paragraph gets one of its own. open is << >> or the one open paragraph.
RECURSIVE parseParagraphs(_, _)
parseParagraphs(html, open) ==
    IF html = <<>> THEN open
    ELSE LET token == Head(html)
             rest == Tail(html)
         IN IF token = ParagraphOpen
            THEN open \o parseParagraphs(rest, <<<<>>>>)
            ELSE IF token = ParagraphClose
            THEN (IF open = <<>> THEN <<<<>>>> ELSE open) \o parseParagraphs(rest, <<>>)
            ELSE IF open = <<>> /\ token \in {" ", "\n"}
            THEN parseParagraphs(rest, <<>>)
            ELSE IF open = <<>>
            THEN parseParagraphs(rest, <<<<token>>>>)
            ELSE parseParagraphs(rest, <<Append(open[1], token)>>)

htmlToTiptapJson(html) == parseParagraphs(html, <<>>)

NoBlocks == [by |-> "none", blocks |-> <<>>]

InitPlain ==
    /\ plainIn \in StringsOver(PlainToken, MaxPlainLen)
    /\ plainOut = NoBlocks
    /\ notification = Unused
    /\ InlineUnused /\ EditorUnused /\ ViewUnused /\ ResolverUnused /\ PdfUnused
    /\ JsonUnused /\ ServiceUnused /\ StorageUnused

PlainFrame == UNCHANGED <<plainIn, inlineVars, editorVars, viewVars, notification,
                          resolverVars, pdfVars, jsonVars, serviceVars, storageVars>>

\* handleFileSubmit for a file that is neither a PDF nor markdown:
\* plainTextToHtml, then htmlToTiptapJson
ImportPlainText ==
    /\ plainOut = NoBlocks
    /\ plainOut' = [by |-> "handleFileSubmit",
                    blocks |-> htmlToTiptapJson(plainTextToHtml(plainIn))]
    /\ PlainFrame

PlainTextToTiptapJson ==
    /\ plainOut = NoBlocks
    /\ plainOut' = [by |-> "plainTextToTiptapJson",
                    blocks |-> plainTextToTiptapJson(plainIn)]
    /\ PlainFrame

NextPlain ==
    \/ ImportPlainText
    \/ PlainTextToTiptapJson

SpecPlain == InitPlain /\ [][NextPlain]_vars

\* --------------------------------------------------- claims on SpecPlain
\* C23: the blocks of a plain text are as many as its lines, the block of
\* a line holds the line's text, and the block of an empty line is empty.
C23_OneBlockPerLine ==
    plainOut.by # "none" =>
        LET lines == splitLines(plainIn)
        IN /\ Len(plainOut.blocks) = Len(lines)
           /\ \A k \in 1..Len(lines) :
                 /\ trim(plainOut.blocks[k]) = trim(lines[k])
                 /\ lines[k] = <<>> => plainOut.blocks[k] = <<>>

\* The file of the three lines Title, an empty line and Body text
C23_ThreeLines ==
    (plainOut.by # "none" /\ plainIn = <<"a", "\n", "\n", "a">>) =>
        plainOut.blocks = <<<<"a">>, <<>>, <<"a">>>>

\* ------------------------------------- the handlers on a blank model text
\* The three handlers that read a text of the model, each on a text that
\* generateText returned.
MaxBlankLen == 2     \* longest text of the model, in tokens

BlankTexts == StringsOver(WhiteSpace, MaxBlankLen)

InitModelText ==
    /\ aiText \in BlankTexts
                    \cup {<<"x">>, <<" ", "x">>,
                          <<"{", ActionReplace, ",", NewHtmlString, "}">>}
    /\ parsed = NotParsed
    /\ pdfIn \in [text : StringsOver(PdfToken, MaxBlankLen), imageCount : 0..1]
    /\ pdfOut = NoPdfOutput
    /\ notification = Unused
    /\ InlineUnused /\ EditorUnused /\ ViewUnused /\ ResolverUnused
    /\ ServiceUnused /\ StorageUnused /\ PlainUnused

NextModelText ==
    \/ EnhanceContentRespond
    \/ PdfToMarkdown
    \/ PdfToHtml

SpecModelText == InitModelText /\ [][NextModelText]_vars

\* ----------------------------------------------- claims on SpecModelText
\* A text of nothing but white space, the empty text included
OnlyWhiteSpace(text) == \A k \in 1..Len(text) : text[k] \in WhiteSpace
OnlySpaceTokens(text) == \A k \in 1..Len(text) : text[k] = SpaceToken

\* C24: a handler that got an empty or whitespace-only text of the model
\* has answered 500 with the error No content generated by AI, and its
\* answer holds no parsed object, no data and no processed text.
C24_BlankOutputFails ==
    /\ (parsed # NotParsed /\ OnlyWhiteSpace(aiText)) =>
          /\ parsed.status = 500
          /\ parsed.error = "No content generated by AI"
          /\ parsed.object = <<>>
          /\ parsed.data = NoData
    /\ (pdfOut # NoPdfOutput /\ OnlySpaceTokens(pdfIn.text)) =>
          /\ pdfOut.status = 500
          /\ pdfOut.error = "No content generated by AI"
          /\ pdfOut.text = <<>>

C24_Witness ==
    /\ aiText = <<" ", "\n">>
    /\ parsed.by = "enhance-content"
    /\ parsed.status = 500
    /\ pdfIn.text = <<SpaceToken>>
    /\ pdfOut.by \in {"pdf-to-markdown", "pdf-to-html"}
    /\ pdfOut.status = 500

\* --------------------------------- claims on SpecStorage: the empty store
EmptyArray == [kind |-> "array", items |-> <<>>]

\* What a read of the store without keys returns
ReadsOfEmptyStoreAreEmpty ==
    storageOp'.name \in {"getDocuments", "getHistory"} =>
        storageOp'.returned = EmptyArray

\* C25 as stated: with no stored keys, a read of the documents or of the
\* history returns an empty collection, and no read, add, update or delete
\* operation throws.
C25_NothingThrowsOnEmptyStore ==
    [][keys = {} =>
          /\ ReadsOfEmptyStoreAreEmpty
          /\ storageOp'.name # "importData" => storageOp'.result # "throws"]_vars

\* C25 amended: with no stored keys, a read returns an empty collection,
\* updateDocument returns null, the deletes return false, and the only
\* operations that throw are addDocument and addHistory, when setItem
\* throws; the store is then still without keys.
C25_EmptyStoreTolerated ==
    [][keys = {} =>
          /\ ReadsOfEmptyStoreAreEmpty
          /\ storageOp'.name = "updateDocument" => storageOp'.result = "null"
          /\ storageOp'.name \in {"deleteDocument", "deleteHistory"} =>
                storageOp'.result = "false"
          /\ storageOp'.result = "throws" =>
                /\ storageOp'.name \in {"addDocument", "addHistory"}
                /\ keys' = {}
                /\ UNCHANGED <<documents, history>>]_vars

C25_Witness ==
    /\ keys = {}
    /\ storageOp.name = "getHistory"
    /\ storageOp.returned = EmptyArray

\* ------------------------------------ claims on SpecEditor: auto-enhance
\* The block that was sent as the target is still the paragraph of the
\* document, with the selection where it was captured.
BlockAsCaptured(doc, context) ==
    /\ context.to <= Len(doc) + 1
    /\ extractSelectionContext(doc, context.from, context.to) = context

\* C26: when the response of an auto-enhance request arrives and the
\* paragraph is still the block that was sent as the target, the whole
\* paragraph is replaced by the content of the returned HTML.
C26_AutoEnhanceReplacesParentNode ==
    (lastEvent.type = "autoApply"
       /\ BlockAsCaptured(lastEvent.docBefore, lastEvent.context)) =>
        editorDoc = lastEvent.newHtml

\* ------------------------- claims on SpecResolver: repeated selected text
\* The 0-based places of the block of a text resolver in the rendered text
BlockStartOfSelection ==
    IF resolverOut.by = "extractParagraphWithSelection"
    THEN paragraphStartOf(resolverIn.fullText, resolverIn.selectionStart)
    ELSE lineStartOf(resolverIn.fullText, resolverIn.selectionStart)

BlockEndOfSelection ==
    IF resolverOut.by = "extractParagraphWithSelection"
    THEN paragraphEndOf(resolverIn.fullText, resolverIn.selectionEnd)
    ELSE lineEndOf(resolverIn.fullText, resolverIn.selectionEnd)

\* A paragraph node of plain text: no marks, nothing to escape
PlainNode(node) == \A k \in 1..Len(node) : ~node[k].bold /\ node[k].ch # "&"

\* The text of the block that holds the selection
BlockTextOfSelection ==
    IF resolverIn.kind = "node"
    THEN [k \in 1..Len(resolverIn.node) |-> resolverIn.node[k].ch]
    ELSE substring(resolverIn.fullText, BlockStartOfSelection, BlockEndOfSelection)

SelectedOccursMoreThanOnce ==
    Cardinality({i \in 0..Len(BlockTextOfSelection) :
                    OccursAt(BlockTextOfSelection, SelectedTextOfInput, i)}) > 1

\* The block with the sentinels around the selection offsets
BlockMarkedAtOffsets ==
    IF resolverIn.kind = "node"
    THEN POpen
           \o SubSeq(BlockTextOfSelection, 1, resolverIn.from - 1)
           \o WithTarget(SelectedTextOfInput)
           \o SubSeq(BlockTextOfSelection, resolverIn.to, Len(resolverIn.node))
           \o PClose
    ELSE trim(substring(resolverIn.fullText, BlockStartOfSelection,
                        resolverIn.selectionStart)
                \o WithTarget(SelectedTextOfInput)
                \o substring(resolverIn.fullText, resolverIn.selectionEnd,
                             BlockEndOfSelection))

\* C27: for a valid selection in one block of plain text whose text occurs
\* more than once in that block, the markup a resolver returns is the
\* block with the sentinels around the occurrence at the selection offsets.
C27_SentinelsAtSelectionOffsets ==
    (/\ resolverOut.by # "none"
     /\ ValidSelectionInOneBlock
     /\ resolverIn.kind = "node" => PlainNode(resolverIn.node)
     /\ SelectedOccursMoreThanOnce) =>
        /\ resolverOut.signal = "markup"
        /\ resolverOut.markup = BlockMarkedAtOffsets

\* ------------------------------------------- the requests under fairness
\* A promise that is awaited settles: the request of an auto-enhancement,
\* the request of the side panel, and each awaited step of an import are
\* answered or fail in the end. What the user does is under no fairness.
AutoEnhanceSettles ==
    /\ modal.page = "document"
    /\ \E i \in 1..MaxInFlight :
          \/ AutoEnhanceFail(i)
          \/ \E newHtml \in NewHtmlChoices : AutoEnhanceApply(i, newHtml)
    /\ Len(editorDoc') <= MaxPageLen

PanelRequestSettles ==
    /\ modal.page = "document"
    /\ \E i \in 1..MaxInFlight :
          \/ PanelEnhanceFail(i)
          \/ \E newHtml \in NewHtmlChoices : PanelEnhanceDone(i, newHtml)

ImportContinues ==
    /\ modal.page = "dashboard"
    /\ (ConfluenceFetched \/ PdfConverted \/ FileRead \/ Analyzed)

SpecImportFair ==
    /\ SpecImport
    /\ WF_vars(AutoEnhanceSettles)
    /\ WF_vars(PanelRequestSettles)
    /\ WF_vars(ImportContinues)

\* ---------------------------------------------- claims on SpecImportFair
EnhancingSet == modal.page = "document" /\ enhancing
EnhancingReset == modal.page = "document" /\ ~enhancing
PanelLoadingSet == modal.page = "document" /\ panel.isLoading
PanelLoadingReset == modal.page = "document" /\ ~panel.isLoading
ModalLoadingSet == modal.page = "dashboard" /\ modal.isLoading
ModalLoadingReset == modal.page = "dashboard" /\ ~modal.isLoading

\* C28: a loading flag that a started request has set is reset in the end:
\* enhancing of the editor view, isLoading of the side panel and isLoading
\* of the import modal, whatever the outcome of the request.
C28_ControlReturnsToUser ==
    /\ EnhancingSet ~> EnhancingReset
    /\ PanelLoadingSet ~> PanelLoadingReset
    /\ ModalLoadingSet ~> ModalLoadingReset

\* C28 witness: an import whose upstream call failed has ended, and the
\* modal is no longer loading.
C28_Witness ==
    /\ modal.page = "dashboard"
    /\ modal.failed
    /\ externalCalls # <<>>
    /\ ~modal.isLoading

\* ------------------------------------ claims on SpecStorage: deleteDocument
\* C29: deleteDocument(id) returns true for an id of a stored document, and
\* the store then holds no document of that id and no record of that
\* documentId, with the other documents and records as they were, in their
\* order; it returns false for an id no stored document has, and the store
\* is then as it was.
C29_Step ==
    storageOp'.name = "deleteDocument" =>
        LET id == storageOp'.id
        IN IF id \in IdsOf(documents)
           THEN /\ storageOp'.result = "true"
                /\ id \notin IdsOf(documents')
                /\ id \notin DocumentIdsOf(history')
                /\ documents' = SelectSeq(documents, LAMBDA d : d.id # id)
                /\ history' = SelectSeq(history, LAMBDA h : h.documentId # id)
           ELSE /\ storageOp'.result = "false"
                /\ UNCHANGED <<documents, history>>

C29_DeleteDocumentFrame == [][C29_Step]_vars

\* C29 witness: a document was deleted, and a document and a record of
\* another id are still stored.
C29_Witness ==
    /\ storageOp.name = "deleteDocument"
    /\ storageOp.result = "true"
    /\ documents # <<>>
    /\ history # <<>>

\* ---------------------------------- claims on SpecEditor: reject and close
\* C30: rejecting a proposed enhancement, or closing the side panel, leaves
\* the document as it was; and no step of the side panel before an accept
\* (typing the prompt, sending the request, receiving the enhancement, the
\* follow-up) changes the document, so the content is the one from before
\* the enhancement was requested but for what the user did to it since.
C30_Step ==
    /\ lastEvent'.type \in {"reject", "close"} =>
          /\ UNCHANGED editorDoc
          /\ lastEvent'.docBefore = editorDoc
          /\ ~showSidePanel'
    /\ ((panel' # panel \/ panelPending' # panelPending)
           /\ lastEvent'.type # "accept") =>
          UNCHANGED editorDoc

C30_RejectLeavesDocument == [][C30_Step]_vars

\* C30 witness: an enhancement was proposed for a document that is not
\* empty and then rejected.
C30_Witness ==
    /\ lastEvent.type = "reject"
    /\ notification = "Enhancement Rejected"
    /\ editorDoc # <<>>
    /\ editorDoc = lastEvent.docBefore

\* ------------------------------------------------ claims on SpecReplace
\* C1: when the original text X occurs in the document, the document after
\* the replacement is the old one with the first occurrence of X replaced by
\* Y: everything before that occurrence and everything after it is kept, and
\* the content-change callback fires.
C1_FirstOccurrenceReplaced ==
    (lastReplace.called /\ Occurs(lastReplace.fullText, lastReplace.originalText)) =>
        LET d == lastReplace.fullText
            X == lastReplace.originalText
            Y == lastReplace.newText
        IN /\ lastReplace.onContentChange
           /\ \E i \in 0..Len(d) :
                /\ OccursAt(d, X, i)
                /\ \A j \in 0..(i - 1) : ~OccursAt(d, X, j)
                /\ documentContent =
                     SubSeq(d, 1, i) \o Y \o SubSeq(d, i + Len(X) + 1, Len(d))

\* C1 witness: X occurs at two places of the document and a different Y was
\* put in its place.
C1_Witness ==
    /\ lastReplace.called
    /\ Cardinality({i \in 0..Len(lastReplace.fullText) :
                      OccursAt(lastReplace.fullText, lastReplace.originalText, i)}) >= 2
    /\ lastReplace.originalText # <<>>
    /\ lastReplace.newText # lastReplace.originalText
    /\ documentContent # lastReplace.fullText

\* C2: when the original text does not occur in the document, the document
\* after the call equals the document before it and the content-change
\* callback has not fired.
C2_UnchangedWhenAbsent ==
    (lastReplace.called /\ ~Occurs(lastReplace.fullText, lastReplace.originalText)) =>
        /\ documentContent = lastReplace.fullText
        /\ ~lastReplace.onContentChange

\* C2 witness: a call with an absent original text and a non-empty
\* replacement.
C2_Witness ==
    /\ lastReplace.called
    /\ ~Occurs(lastReplace.fullText, lastReplace.originalText)
    /\ lastReplace.newText # <<>>
    /\ lastReplace.fullText # <<>>

====
